---- MODULE Spec2Model ----
(***************************************************************************)
(* Heap capture and trace analysis of HeapHandler (cdp-handlers/heap-      *)
(* handler.ts): the chunked capture sink (captureHeapSnapshotRaw), the     *)
(* two request handlers (getHeapSnapshot, trackAllocations) and the two    *)
(* decoders (parseV8HeapSnapshot, parseV8HeapSnapshotAllocationTrace);     *)
(* two requests of the handler running concurrently; and the output mode   *)
(* of take_screenshot (tools/take-screenshot.ts).                          *)
(*                                                                         *)
(* Text is a sequence of characters (UTF-16 code units of the Basic        *)
(* Multilingual Plane); Utf8Width gives the number of bytes a character    *)
(* occupies in UTF-8, so that String.length (code units) and               *)
(* Buffer.byteLength (bytes) are different measures, as in the code.       *)
(***************************************************************************)
EXTENDS Integers, Sequences, FiniteSets, TLC

(***************************************************************************)
(* Bounds of the model                                                     *)
(***************************************************************************)
\* chunks delivered by one takeHeapSnapshot
MaxChunks == 2
\* largest byte budget (maxSnapshotBytes, maxInlineBytes, maxParseBytes) requested
MaxBudget == 3
\* node records of a generated heap snapshot
MaxNodes == 3
\* nodes (the root included) of a generated allocation trace tree
MaxTraceNodes == 4
\* largest topN requested besides the default
MaxTopN == 2
\* decoder calls made on one HeapHandler
MaxDecodes == 3
\* values Date.now() takes while the requests run, from 0
MaxClock == 1
\* largest screenshot taken, in KiB of image bytes
MaxImageKB == 160
\* image sizes tried per KiB
ShotGrain == 2

\* the characters chunks are made of: "a" is a one-byte character, "W" stands
\* for a character of three UTF-8 bytes (a CJK ideograph, one code unit)
Chars == {"a", "W"}

\* Buffer.byteLength of one character
Utf8Width(c) == IF c = "a" THEN 1 ELSE 3

\* Buffer.byteLength(text, 'utf8')
RECURSIVE ByteLength(_)
ByteLength(text) ==
  IF text = <<>> THEN 0 ELSE Utf8Width(Head(text)) + ByteLength(Tail(text))

\* String.prototype.slice(0, n) for n >= 0: the first n code units
Slice(text, n) == SubSeq(text, 1, IF n < Len(text) THEN n ELSE Len(text))

\* the chunk strings the protocol client may deliver: the empty string, one
\* character of one byte, one of three bytes, and two characters
Chunks == {<<>>, <<"a">>, <<"W">>, <<"a", "a">>}

\* chunks.join('')
RECURSIVE Join(_)
Join(chunks) == IF chunks = <<>> THEN <<>> ELSE Head(chunks) \o Join(Tail(chunks))

ExportModes == {"none", "file", "inline", "both"}
Kinds == {"heap", "alloc"}

\* the three places a capture file may live: the caller's export.filePath,
\* ./.heapsnapshot/<prefix>-<time>-<uuid>.heapsnapshot, and
\* <tmpdir>/mcp-<prefix>-<time>-<uuid>.heapsnapshot
Paths == {"caller", "default", "temp"}

\* the Limitation strings, by the statement that pushes them
LimWriteFailed == "write failed; writing and parsing stopped"
LimExceededSnapshot == "exceeded maxSnapshotBytes and was truncated; parsing skipped"
LimExceededParse == "size exceeded maxParseBytes; parsing skipped"
LimParseFailed == "failed to parse"
LimLegacyNodes == "legacy nodes truncated to TopN"

VARIABLES
  pc,                 \* position of the request handler
  req,                \* the request's parameters
  outcome,            \* "pending", "returned" or "thrown"
  session,            \* CDP session: "none", "attached", "detached"
  tracking,           \* browser-side heap object tracking is running
  exportFilePath,     \* params.export.filePath: "caller", or "undefined"
  snapshotFilePath,   \* the path the capture writes to ("unset" before)
  files,              \* the paths that exist on disk
  fileContent,        \* the content on disk at snapshotFilePath
  stream,             \* write stream: "none", "open", "finished", "errored"
  listening,          \* onChunk is registered for addHeapSnapshotChunk
  totalReceivedBytes,
  fileBytesWritten,
  snapshotTruncated,
  streamError,
  inlineChunks,       \* the inline buffer, as the chunks pushed to it
  inlineBytes,
  inlineTruncated,
  limitations,
  delivered,          \* the chunk events emitted so far, in order
  written,            \* the chunks passed to stream.write, in order
  doc,                \* what JSON.parse makes of the delivered text (NoDoc
                      \* until the text is read)
  gate,               \* what the parse gate saw and decided
  result,             \* the value returned to the caller
  issued,             \* the commands sent, the measurements and the waits
                      \* made so far, in order, each with whether it succeeded
  decodes,            \* the decoder calls made on this HeapHandler, in order
  shot,               \* the take_screenshot call: its arguments and what it did
  calls,              \* the requests running concurrently on this HeapHandler, by call
  disk,               \* the capture files on disk, for the concurrent requests
  walk                \* the allocation-trace walk followed one iteration at a time

sinkVars == <<totalReceivedBytes, fileBytesWritten, snapshotTruncated,
              inlineChunks, inlineBytes, inlineTruncated, written, fileContent>>
vars == <<pc, req, outcome, session, tracking, exportFilePath, snapshotFilePath, files,
          fileContent, stream, listening, totalReceivedBytes, fileBytesWritten,
          snapshotTruncated, streamError, inlineChunks, inlineBytes,
          inlineTruncated, limitations, delivered, written, doc, gate, result,
          issued, decodes, shot, calls, disk, walk>>
\* the state of the single request followed step by step
requestVars == <<pc, req, outcome, session, tracking, exportFilePath,
                 snapshotFilePath, files, stream, listening, streamError,
                 limitations, delivered, doc, gate, result, sinkVars, issued,
                 decodes>>

shouldReturnFile == req.exportMode \in {"file", "both"}
shouldReturnInline == req.exportMode \in {"inline", "both"}

(***************************************************************************)
(* captureHeapSnapshotRaw.onChunk                                          *)
(***************************************************************************)
\* faulty variant of the budget test: a chunk that exactly fills the budget
\* counts as exceeding it
ExceedsAtBudget(total, maxSnapshotBytes) == total >= maxSnapshotBytes

\* the budget test of the file destination
ExceedsSnapshotBudget(total, maxSnapshotBytes) == total > maxSnapshotBytes

\* the part of a chunk pushed to the inline buffer
InlineSliced(chunk, remaining) ==
  IF Len(chunk) > remaining THEN Slice(chunk, remaining) ELSE chunk

\* whether pushing a chunk marks the inline payload truncated
InlineCut(chunk, remaining) == Len(chunk) > remaining

\* faulty variant: a chunk is written whenever it fits what is left of the
\* budget after the bytes written so far
WritesChunkIfItFits(truncated, error, total, bytesWritten, chunkBytes, maxSnapshotBytes) ==
  ~error /\ bytesWritten + chunkBytes <= maxSnapshotBytes

\* whether onChunk passes the chunk to stream.write: total is
\* totalReceivedBytes with the chunk counted in
WritesChunk(truncated, error, total, bytesWritten, chunkBytes, maxSnapshotBytes) ==
  ~truncated /\ ~error /\ ~ExceedsSnapshotBudget(total, maxSnapshotBytes)

OnChunk(chunk) ==
  /\ pc = "capture"
  /\ listening
  /\ Len(delivered) < MaxChunks
  /\ delivered' = Append(delivered, chunk)
  /\ UNCHANGED <<pc, req, outcome, session, tracking, exportFilePath,
                 snapshotFilePath, files, stream, listening, streamError, doc,
                 gate, result, issued, decodes, shot, calls, disk, walk>>
  /\ IF chunk = <<>>
     THEN UNCHANGED <<sinkVars, limitations>>
     ELSE
       LET chunkBytes == ByteLength(chunk)
           total == totalReceivedBytes + chunkBytes
           sawError == ~snapshotTruncated /\ streamError
           exceeded == /\ ~snapshotTruncated /\ ~streamError
                       /\ ExceedsSnapshotBudget(total, req.maxSnapshotBytes)
           doWrite == WritesChunk(snapshotTruncated, streamError, total,
                                  fileBytesWritten, chunkBytes, req.maxSnapshotBytes)
           remaining == req.maxInlineBytes - inlineBytes
           doInline == /\ ~sawError /\ shouldReturnInline /\ ~inlineTruncated
                       /\ inlineBytes < req.maxInlineBytes
           inlineFull == /\ ~sawError /\ ~doInline /\ shouldReturnInline
                         /\ inlineBytes >= req.maxInlineBytes
           sliced == InlineSliced(chunk, remaining)
       IN
       /\ totalReceivedBytes' = total
       /\ snapshotTruncated' = (snapshotTruncated \/ sawError \/ exceeded)
       /\ limitations' =
            IF sawError THEN Append(limitations, LimWriteFailed)
            ELSE IF exceeded THEN Append(limitations, LimExceededSnapshot)
            ELSE limitations
       /\ written' = IF doWrite THEN Append(written, chunk) ELSE written
       /\ fileContent' = IF doWrite THEN fileContent \o chunk ELSE fileContent
       /\ fileBytesWritten' =
            IF doWrite THEN fileBytesWritten + chunkBytes ELSE fileBytesWritten
       /\ inlineChunks' = IF doInline THEN Append(inlineChunks, sliced) ELSE inlineChunks
       /\ inlineBytes' = IF doInline THEN inlineBytes + ByteLength(sliced) ELSE inlineBytes
       /\ inlineTruncated' =
            IF doInline THEN (inlineTruncated \/ InlineCut(chunk, remaining))
            ELSE (inlineTruncated \/ inlineFull)

(***************************************************************************)
(* JavaScript values used by the decoders                                  *)
(***************************************************************************)
\* arr[i] of a JavaScript array (0-based) is undefined outside the array
Has(arr, i) == i \in 0..(Len(arr) - 1)
At(arr, i) == arr[i + 1]

\* Array.prototype.indexOf: 0-based position of the first match, -1 if none
IndexOf(arr, x) ==
  IF \E k \in 1..Len(arr) : arr[k] = x
  THEN (CHOOSE k \in 1..Len(arr) : arr[k] = x /\ \A j \in 1..(k - 1) : arr[j] # x) - 1
  ELSE -1

\* faulty variant of slice(0, n): one element too many
SliceToInclusive(arr, n) == SubSeq(arr, 1, IF n + 1 < Len(arr) THEN n + 1 ELSE Len(arr))

\* Array.prototype.slice(0, n): n < 0 counts from the end
SliceTo(arr, n) ==
  LET end == IF n >= 0 THEN (IF n < Len(arr) THEN n ELSE Len(arr))
             ELSE (IF Len(arr) + n > 0 THEN Len(arr) + n ELSE 0)
  IN SubSeq(arr, 1, end)

\* the element of a one-element set: { F(x) : x \in {e} } evaluates e once,
\* which keeps the loops below linear in their number of iterations
Only(S) == CHOOSE x \in S : TRUE

\* String(undefined), and an id that is undefined
Undefined == "undefined"
NoId == -1

(***************************************************************************)
(* HeapHandler.parseV8HeapSnapshot                                         *)
(* A document is what JSON.parse returns for the captured text:            *)
(*   valid      the text is JSON (otherwise JSON.parse throws)             *)
(*   structure  snapshot.meta, nodes[] and strings[] are present           *)
(*   node_fields, type_is_enum, type_enum, has_node_count, node_count,     *)
(*   strings, nodes   the parts of a heap snapshot the decoder reads       *)
(***************************************************************************)
\* faulty variant: an index outside the string table gives no name
NodeNameOrUndefined(strings, hasIndex, nameIndex) ==
  IF ~hasIndex THEN Undefined
  ELSE IF Has(strings, nameIndex) THEN At(strings, nameIndex)
  ELSE Undefined

\* names[nameIndex] ?? String(nameIndex)
NodeName(strings, hasIndex, nameIndex) ==
  IF ~hasIndex THEN Undefined
  ELSE IF Has(strings, nameIndex) THEN At(strings, nameIndex)
  ELSE ToString(nameIndex)

\* nodesArr[base + idxSelfSize] ?? 0
SelfSizeOf(nodesArr, pos) == IF Has(nodesArr, pos) THEN At(nodesArr, pos) ELSE 0

\* typeEnum ? typeEnum[typeValue] : String(typeValue)
NodeType(d, pos) ==
  IF ~Has(d.nodes, pos) THEN Undefined
  ELSE LET typeValue == At(d.nodes, pos)
       IN IF d.type_is_enum
          THEN (IF Has(d.type_enum, typeValue) THEN At(d.type_enum, typeValue) ELSE Undefined)
          ELSE ToString(typeValue)

\* faulty variant of the bucket update: the self size replaces the bucket's
\* sum instead of being added to it
AddToBucketOverwrite(byName, name, selfSize) ==
  IF \E k \in 1..Len(byName) : byName[k].name = name
  THEN [k \in 1..Len(byName) |->
          IF byName[k].name = name
          THEN [name |-> name, count |-> byName[k].count + 1,
                selfSizeBytes |-> selfSize]
          ELSE byName[k]]
  ELSE Append(byName, [name |-> name, count |-> 1, selfSizeBytes |-> selfSize])

\* byName.get(name) ?? {count: 0, selfSizeBytes: 0}; count += 1;
\* selfSizeBytes += selfSize; byName.set(name, agg)  (a Map keeps insertion order)
AddToBucket(byName, name, selfSize) ==
  IF \E k \in 1..Len(byName) : byName[k].name = name
  THEN [k \in 1..Len(byName) |->
          IF byName[k].name = name
          THEN [name |-> name, count |-> byName[k].count + 1,
                selfSizeBytes |-> byName[k].selfSizeBytes + selfSize]
          ELSE byName[k]]
  ELSE Append(byName, [name |-> name, count |-> 1, selfSizeBytes |-> selfSize])

\* one step of Array.prototype.sort((a, b) => b.selfSizeBytes - a.selfSizeBytes):
\* the sort is stable, so an entry goes after every entry that is not smaller
RECURSIVE InsertDesc(_, _)
InsertDesc(sorted, x) ==
  IF sorted = <<>> THEN <<x>>
  ELSE IF Head(sorted).selfSizeBytes >= x.selfSizeBytes
       THEN <<Head(sorted)>> \o InsertDesc(Tail(sorted), x)
       ELSE <<x>> \o sorted

RECURSIVE SortDescBySelfSize(_)
SortDescBySelfSize(arr) ==
  IF arr = <<>> THEN <<>>
  ELSE Only({InsertDesc(sorted, arr[Len(arr)]) :
               sorted \in {SortDescBySelfSize(SubSeq(arr, 1, Len(arr) - 1))}})

\* faulty variant of nodeCount: the length is rounded up, so that a partial
\* record at the end counts as a node
NodeCountCeiling(d) ==
  IF d.has_node_count THEN d.node_count
  ELSE (Len(d.nodes) + Len(d.node_fields) - 1) \div Len(d.node_fields)

\* nodeCount: the declared count when it is a number, else floor(length / width)
NodeCount(d) ==
  IF d.has_node_count THEN d.node_count ELSE Len(d.nodes) \div Len(d.node_fields)

\* the body of the for loop for record i (0-based): acc holds totalSizeBytes,
\* byName and nodeList
NodeStep(d, i, acc) ==
  LET fieldCount == Len(d.node_fields)
      base == i * fieldCount
      idxName == IndexOf(d.node_fields, "name")
      idxSelfSize == IndexOf(d.node_fields, "self_size")
      idxType == IndexOf(d.node_fields, "type")
      idxId == IndexOf(d.node_fields, "id")
      hasName == Has(d.nodes, base + idxName)
      name == NodeName(d.strings, hasName,
                       IF hasName THEN At(d.nodes, base + idxName) ELSE 0)
      selfSize == SelfSizeOf(d.nodes, base + idxSelfSize)
      type == NodeType(d, base + idxType)
      id == IF idxId >= 0 /\ Has(d.nodes, base + idxId)
            THEN At(d.nodes, base + idxId) ELSE NoId
  IN [totalSizeBytes |-> acc.totalSizeBytes + selfSize,
      byName |-> AddToBucket(acc.byName, name, selfSize),
      nodeList |-> Append(acc.nodeList,
         [id |-> id, name |-> name, type |-> type, selfSizeBytes |-> selfSize])]

\* for (let i = 0; i < nodeCount; i++)
RECURSIVE NodeLoop(_, _, _, _)
NodeLoop(d, i, nodeCount, acc) ==
  IF i >= nodeCount THEN acc
  ELSE Only({NodeLoop(d, i + 1, nodeCount, next) : next \in {NodeStep(d, i, acc)}})

\* faulty variant: id is required as well
MissingRequiredOrIdNodeFields(nodeFields) ==
  \/ IndexOf(nodeFields, "type") < 0
  \/ IndexOf(nodeFields, "name") < 0
  \/ IndexOf(nodeFields, "id") < 0
  \/ IndexOf(nodeFields, "self_size") < 0

\* idxType < 0 || idxName < 0 || idxSelfSize < 0
MissingRequiredNodeFields(nodeFields) ==
  \/ IndexOf(nodeFields, "type") < 0
  \/ IndexOf(nodeFields, "name") < 0
  \/ IndexOf(nodeFields, "self_size") < 0

parseV8HeapSnapshot(d, topN) ==
  IF ~d.valid THEN [ok |-> FALSE, error |-> "SyntaxError"]
  ELSE IF ~d.structure THEN [ok |-> FALSE, error |-> "invalid heap snapshot structure"]
  ELSE IF MissingRequiredNodeFields(d.node_fields)
       THEN [ok |-> FALSE, error |-> "heap snapshot meta missing required node_fields"]
  ELSE
    Only({[ok |-> TRUE,
           totalNodes |-> NodeCount(d),
           totalSizeBytes |-> acc.totalSizeBytes,
           topConstructors |-> SliceTo(SortDescBySelfSize(acc.byName), topN),
           topNodes |-> SliceTo(SortDescBySelfSize(acc.nodeList), topN)] :
            acc \in {NodeLoop(d, 0, NodeCount(d),
                       [totalSizeBytes |-> 0, byName |-> <<>>, nodeList |-> <<>>])}})

(***************************************************************************)
(* HeapHandler.parseV8HeapSnapshotAllocationTrace                          *)
(* The document's further parts: trace_structure (meta, strings[],         *)
(* trace_tree[] and trace_function_infos[] are present and the two field   *)
(* lists are arrays), trace_node_fields, trace_function_info_fields,       *)
(* trace_function_infos, trace_tree.  depths is the tree that trace_tree    *)
(* encodes, as the depth of each node in pre-order (the root has depth 0); *)
(* the decoder does not read it.                                           *)
(***************************************************************************)
\* a number field that is undefined in the summary
NoNumber == -1

\* nodeFields.indexOf(a) >= 0 ? nodeFields.indexOf(a) : nodeFields.indexOf(b)
IndexOfEither(fields, a, b) ==
  IF IndexOf(fields, a) >= 0 THEN IndexOf(fields, a) ELSE IndexOf(fields, b)

idxFnInfoOf(d) ==
  IndexOfEither(d.trace_node_fields, "function_info_index", "functionInfoIndex")
idxCountOf(d) == IndexOf(d.trace_node_fields, "count")
idxSizeOf(d) == IndexOfEither(d.trace_node_fields, "size", "size_bytes")
idxChildrenOf(d) ==
  IF IndexOf(d.trace_node_fields, "children") >= 0
  THEN IndexOf(d.trace_node_fields, "children")
  ELSE IndexOfEither(d.trace_node_fields, "children_count", "childrenCount")

FnPlaceholder(functionInfoIndex) == "fn#" \o ToString(functionInfoIndex)

\* faulty variant: the last descriptor of the table counts as out of range
DescriptorHeldStrictly(base, fnFieldCount, length) == base + fnFieldCount < length

\* !(base + fnFieldCount > fnInfoRaw.length)
DescriptorHeld(base, fnFieldCount, length) == base + fnFieldCount <= length

getFnLabel(d, functionInfoIndex) ==
  LET fnFields == d.trace_function_info_fields
      fnFieldCount == Len(fnFields)
      fnInfoRaw == d.trace_function_infos
      base == functionInfoIndex * fnFieldCount
      fnIdxName == IndexOf(fnFields, "name")
      fnIdxScriptName == IndexOfEither(fnFields, "script_name", "scriptName")
      fnIdxLine == IndexOf(fnFields, "line")
      fnIdxColumn == IndexOf(fnFields, "column")
  IN
  IF functionInfoIndex < 0 THEN FnPlaceholder(functionInfoIndex)
  ELSE IF ~DescriptorHeld(base, fnFieldCount, Len(fnInfoRaw))
       THEN FnPlaceholder(functionInfoIndex)
  ELSE
    LET name ==
          IF fnIdxName >= 0 /\ Has(d.strings, At(fnInfoRaw, base + fnIdxName))
          THEN At(d.strings, At(fnInfoRaw, base + fnIdxName))
          ELSE FnPlaceholder(functionInfoIndex)
        hasScript ==
          /\ fnIdxScriptName >= 0
          /\ Has(d.strings, At(fnInfoRaw, base + fnIdxScriptName))
          /\ At(d.strings, At(fnInfoRaw, base + fnIdxScriptName)) # ""
        lineText == IF fnIdxLine >= 0 THEN At(fnInfoRaw, base + fnIdxLine) ELSE 0
        colText == IF fnIdxColumn >= 0 THEN At(fnInfoRaw, base + fnIdxColumn) ELSE 0
    IN IF hasScript
       THEN name \o " (" \o At(d.strings, At(fnInfoRaw, base + fnIdxScriptName))
                 \o ":" \o ToString(lineText) \o ":" \o ToString(colText) \o ")"
       ELSE name

\* top.sort((a, b) => a.sizeBytes - b.sizeBytes), stable
RECURSIVE InsertAscBySize(_, _)
InsertAscBySize(sorted, x) ==
  IF sorted = <<>> THEN <<x>>
  ELSE IF Head(sorted).sizeBytes <= x.sizeBytes
       THEN <<Head(sorted)>> \o InsertAscBySize(Tail(sorted), x)
       ELSE <<x>> \o sorted

RECURSIVE SortAscBySize(_)
SortAscBySize(arr) ==
  IF arr = <<>> THEN <<>>
  ELSE Only({InsertAscBySize(sorted, arr[Len(arr)]) :
               sorted \in {SortAscBySize(SubSeq(arr, 1, Len(arr) - 1))}})

\* top.sort((a, b) => b.sizeBytes - a.sizeBytes), stable
RECURSIVE InsertDescBySize(_, _)
InsertDescBySize(sorted, x) ==
  IF sorted = <<>> THEN <<x>>
  ELSE IF Head(sorted).sizeBytes >= x.sizeBytes
       THEN <<Head(sorted)>> \o InsertDescBySize(Tail(sorted), x)
       ELSE <<x>> \o sorted

RECURSIVE SortDescBySize(_)
SortDescBySize(arr) ==
  IF arr = <<>> THEN <<>>
  ELSE Only({InsertDescBySize(sorted, arr[Len(arr)]) :
               sorted \in {SortDescBySize(SubSeq(arr, 1, Len(arr) - 1))}})

\* faulty variant of pushTop: the list is allowed one entry more than topN
pushTopOffByOne(top, item, topN) ==
  IF topN <= 0 THEN top
  ELSE IF Len(top) <= topN THEN SortAscBySize(Append(top, item))
  ELSE IF item.sizeBytes <= top[1].sizeBytes THEN top
  ELSE SortAscBySize([top EXCEPT ![1] = item])

\* faulty variant: a topN of 0 or less still keeps the first candidate
pushTopKeepsFirst(top, item, topN) ==
  IF topN <= 0 THEN (IF top = <<>> THEN <<item>> ELSE top)
  ELSE IF Len(top) < topN THEN SortAscBySize(Append(top, item))
  ELSE IF item.sizeBytes <= top[1].sizeBytes THEN top
  ELSE SortAscBySize([top EXCEPT ![1] = item])

\* faulty variant: a candidate as large as the current minimum replaces it
pushTopReplacesTies(top, item, topN) ==
  IF topN <= 0 THEN top
  ELSE IF Len(top) < topN THEN SortAscBySize(Append(top, item))
  ELSE IF item.sizeBytes < top[1].sizeBytes THEN top
  ELSE SortAscBySize([top EXCEPT ![1] = item])

\* the bounded list of the largest candidates, kept ascending by sizeBytes
pushTop(top, item, topN) ==
  IF topN <= 0 THEN top
  ELSE IF Len(top) < topN THEN SortAscBySize(Append(top, item))
  ELSE IF item.sizeBytes <= top[1].sizeBytes THEN top
  ELSE SortAscBySize([top EXCEPT ![1] = item])

\* readNode can be called: a whole record is left at the cursor
CanReadNode(d, cursor) == cursor + Len(d.trace_node_fields) <= Len(d.trace_tree)

readNode(d, cursor) ==
  LET nodeFieldCount == Len(d.trace_node_fields)
      base == cursor
      idxChildren == idxChildrenOf(d)
  IN [fnLabel |-> getFnLabel(d, At(d.trace_tree, base + idxFnInfoOf(d))),
      count |-> At(d.trace_tree, base + idxCountOf(d)),
      sizeBytes |-> At(d.trace_tree, base + idxSizeOf(d)),
      children |-> IF idxChildren >= 0
                   THEN At(d.trace_tree, base + idxChildren)
                   ELSE At(d.trace_tree, base + (nodeFieldCount - 1))]

\* faulty variant of the candidate test: leaves of size 0 are pushed too
IsCandidateAnySize(node, callStack) ==
  LET isLeaf == node.children <= 0
      isRoot == Len(callStack) <= 1
  IN ~isRoot /\ isLeaf

\* whether a visited node is pushed as a candidate stack
IsCandidate(node, callStack) ==
  LET isLeaf == node.children <= 0
      isRoot == Len(callStack) <= 1
  IN ~isRoot /\ isLeaf /\ node.sizeBytes > 0

\* the stack trace reported for the node on top of callStack
StackTraceOf(callStack) == SubSeq(callStack, 2, Len(callStack))

\* faulty variant: the parent's count is left as it was
AfterReturnKept(popped) == popped

\* childStack after a node was left: the count of the parent, if there is
\* one, goes down by one
AfterReturn(popped) ==
  IF popped = <<>> THEN popped
  ELSE [popped EXCEPT ![Len(popped)] = popped[Len(popped)] - 1]

\* one iteration of the while loop: w is the walk's state (cursor, callStack,
\* childStack, top); candidates records every item handed to pushTop, in
\* order; truncated is set where readNode throws
TraceStep(d, topN, w) ==
  LET depth == Len(w.childStack)
      remaining == w.childStack[depth]
  IN
  IF remaining <= 0
  THEN
    LET popped == SubSeq(w.childStack, 1, depth - 1)
    IN [w EXCEPT !.callStack = SubSeq(w.callStack, 1, Len(w.callStack) - 1),
                 !.childStack = AfterReturn(popped)]
  ELSE IF ~CanReadNode(d, w.cursor) THEN [w EXCEPT !.truncated = TRUE]
  ELSE
    LET node == readNode(d, w.cursor)
        callStack == Append(w.callStack, node.fnLabel)
        item == [stackTrace |-> StackTraceOf(callStack),
                 sizeBytes |-> node.sizeBytes, count |-> node.count]
        isCand == IsCandidate(node, callStack)
    IN [w EXCEPT !.cursor = w.cursor + Len(d.trace_node_fields),
                 !.callStack = callStack,
                 !.childStack = Append(w.childStack, node.children),
                 !.top = IF isCand THEN pushTop(w.top, item, topN) ELSE w.top,
                 !.candidates = IF isCand THEN Append(w.candidates, item)
                                ELSE w.candidates]

\* while (childStack.length > 0)
RECURSIVE TraceWalk(_, _, _)
TraceWalk(d, topN, w) ==
  IF w.childStack = <<>> \/ w.truncated THEN w
  ELSE Only({TraceWalk(d, topN, next) : next \in {TraceStep(d, topN, w)}})

\* the walk's state once the root record is read and pushed
WalkAtRoot(d) ==
  Only({[cursor |-> Len(d.trace_node_fields), callStack |-> <<root.fnLabel>>,
         childStack |-> <<root.children>>, top |-> <<>>, candidates |-> <<>>,
         truncated |-> FALSE] : root \in {readNode(d, 0)}})

\* the walk from the root record on
TraceWalkFromRoot(d, topN) ==
  Only({TraceWalk(d, topN, atRoot) : atRoot \in {WalkAtRoot(d)}})

RECURSIVE SizeBytesTotal(_)
SizeBytesTotal(items) ==
  IF items = <<>> THEN 0 ELSE Head(items).sizeBytes + SizeBytesTotal(Tail(items))

\* faulty variant: the total is added up from the candidate leaves
TraceSummaryOfLeaves(w, root) ==
  [ok |-> TRUE,
   parsed |-> TRUE,
   totalAllocatedBytes |-> IF SizeBytesTotal(w.candidates) > 0
                           THEN SizeBytesTotal(w.candidates) ELSE NoNumber,
   totalCount |-> IF root.count > 0 THEN root.count ELSE NoNumber,
   topStacks |-> SortDescBySize(w.top),
   candidates |-> w.candidates]

\* the summary built from the walk
TraceSummary(w, root) ==
  [ok |-> TRUE,
   parsed |-> TRUE,
   totalAllocatedBytes |-> IF root.sizeBytes > 0 THEN root.sizeBytes ELSE NoNumber,
   totalCount |-> IF root.count > 0 THEN root.count ELSE NoNumber,
   topStacks |-> SortDescBySize(w.top),
   candidates |-> w.candidates]

\* faulty variant: a walk that ran past the end of trace_tree returns the
\* stacks found so far
WalkResultPartial(w, root) == TraceSummary(w, root)

\* what the decoder returns after the walk: the Error thrown by readNode, or
\* the summary
WalkResult(w, root) ==
  IF w.truncated THEN [ok |-> FALSE, error |-> "trace_tree truncated"]
  ELSE TraceSummary(w, root)

parseV8HeapSnapshotAllocationTrace(d, topN) ==
  IF ~d.valid THEN [ok |-> FALSE, error |-> "SyntaxError"]
  ELSE IF ~d.trace_structure
       THEN [ok |-> FALSE, error |-> "heap snapshot missing trace_tree/trace_function_infos"]
  ELSE IF Len(d.trace_node_fields) <= 0 \/ Len(d.trace_function_info_fields) <= 0
       THEN [ok |-> FALSE, error |-> "invalid trace meta field count"]
  ELSE IF idxFnInfoOf(d) < 0 \/ idxCountOf(d) < 0 \/ idxSizeOf(d) < 0
       THEN [ok |-> FALSE, error |-> "trace_node_fields missing required fields"]
  ELSE IF ~CanReadNode(d, 0) THEN [ok |-> FALSE, error |-> "trace_tree truncated"]
  ELSE
    Only({WalkResult(w, root) :
            w \in {TraceWalkFromRoot(d, topN)}, root \in {readNode(d, 0)}})

(***************************************************************************)
(* Documents                                                               *)
(***************************************************************************)
\* the heap snapshot of the unit tests: three nodes (Foo 1, Bar 5, Foo 2 in
\* units of 1000 bytes) and the trace tree root -> foo -> bar
ScenarioDoc ==
  [valid |-> TRUE, structure |-> TRUE,
   node_fields |-> <<"type", "name", "id", "self_size">>,
   type_is_enum |-> TRUE, type_enum |-> <<"hidden", "array", "string", "object", "native">>,
   has_node_count |-> TRUE, node_count |-> 3,
   strings |-> <<"(root)", "Foo", "Bar", "app.js">>,
   nodes |-> <<3, 1, 100, 1,  3, 2, 101, 5,  4, 1, 102, 2>>,
   trace_structure |-> TRUE,
   trace_node_fields |-> <<"id", "function_info_index", "count", "size", "children">>,
   trace_function_info_fields |-> <<"function_id", "name", "script_name", "line", "column">>,
   trace_function_infos |-> <<0, 0, 3, 0, 0,  1, 1, 3, 20, 2,  2, 2, 3, 50, 1>>,
   trace_tree |-> <<1, 0, 3, 6, 1,  2, 1, 3, 6, 1,  3, 2, 2, 5, 0>>,
   depths |-> <<0, 1, 2>>]

\* text that is not JSON: JSON.parse throws
InvalidDoc == [ScenarioDoc EXCEPT !.valid = FALSE]

\* node_fields without self_size, trace_node_fields without size
MissingSizeDoc ==
  [ScenarioDoc EXCEPT !.node_fields = <<"type", "name", "id">>,
                      !.nodes = <<3, 1, 100,  3, 2, 101>>,
                      !.has_node_count = FALSE,
                      !.trace_node_fields = <<"id", "function_info_index", "count", "children">>,
                      !.trace_tree = <<1, 0, 3, 0>>,
                      !.depths = <<0>>]

\* the document is not known before the captured text is read
NoDoc == [valid |-> FALSE, unread |-> TRUE]

\* the documents a page of the request-level specification may produce
RequestDocs == {ScenarioDoc, InvalidDoc, MissingSizeDoc}

\* params.topN ?? 20
DefaultTopN == 20

\* the values of topN handed to the decoders: the handlers pass params.topN
\* on as it is (the tool schema admits the integers 1..200; a direct caller
\* of HeapHandler may pass 0)
TopNs == (0..MaxTopN) \cup {DefaultTopN}

\* the values of params.topN of the requests that go through a whole capture:
\* a small one and the default
RequestTopNs == {1, DefaultTopN}

RECURSIVE Flatten(_)
Flatten(records) ==
  IF records = <<>> THEN <<>> ELSE Head(records) \o Flatten(Tail(records))

\* generated heap snapshots: every sequence of at most MaxNodes records whose
\* name is "Foo" or "Bar" and whose self size is 1 or 2; record i has id
\* 100 + i and type "object"
NameIndexes == {1, 2}
SelfSizes == {1, 2}
NodeSeqs == UNION {[1..n -> NameIndexes \X SelfSizes] : n \in 0..MaxNodes}
NodeRecord(i, nameIndex, selfSize) == <<3, nameIndex, 100 + i, selfSize>>

\* snapshot.node_count is absent, the number of records, one more, or one less
CountModes == {"absent", "exact", "over", "under"}

HeapDoc(ns, mode) ==
  [ScenarioDoc EXCEPT
     !.nodes = Flatten([i \in 1..Len(ns) |-> NodeRecord(i, ns[i][1], ns[i][2])]),
     !.has_node_count = (mode # "absent"),
     !.node_count = CASE mode = "over" -> Len(ns) + 1
                      [] mode = "under" -> Len(ns) - 1
                      [] OTHER -> Len(ns)]

\* nodes ends inside a record, and no node_count is declared
RaggedDoc ==
  [ScenarioDoc EXCEPT !.nodes = ScenarioDoc.nodes \o <<3, 1>>,
                      !.has_node_count = FALSE]

\* a record whose name index is outside the string table
StrayNameDoc == [ScenarioDoc EXCEPT !.nodes = <<3, 9, 100, 1,  3, 9, 101, 2>>,
                                    !.node_count = 2]

\* node_types holds no enumeration for the type field, and there is no id field
RawTypeDoc ==
  [ScenarioDoc EXCEPT !.type_is_enum = FALSE,
                      !.node_fields = <<"type", "name", "self_size">>,
                      !.nodes = <<3, 1, 1,  4, 2, 5>>,
                      !.node_count = 2]

\* JSON without snapshot.meta, nodes[] or strings[]
UnstructuredDoc == [ScenarioDoc EXCEPT !.structure = FALSE, !.trace_structure = FALSE]

\* two records under another list of node_fields
NodeFieldsDoc(fields, nodes) ==
  [ScenarioDoc EXCEPT !.node_fields = fields, !.nodes = nodes,
                      !.has_node_count = FALSE]

\* a record whose name index is negative
NegativeNameDoc == [ScenarioDoc EXCEPT !.nodes = <<3, -1, 100, 4>>,
                                       !.node_count = 1]

\* four records are declared and nodes ends inside the fourth, after its name
PartialRecordDoc == [RaggedDoc EXCEPT !.has_node_count = TRUE, !.node_count = 4]

HeapDocs ==
  {HeapDoc(ns, mode) : ns \in {x \in NodeSeqs : x # <<>>}, mode \in CountModes}
    \cup {HeapDoc(<<>>, mode) : mode \in CountModes \ {"under"}}
    \cup {RaggedDoc, StrayNameDoc, RawTypeDoc, UnstructuredDoc}
    \cup {NegativeNameDoc, PartialRecordDoc}
    \cup {MissingSizeDoc,
          NodeFieldsDoc(<<"name", "id", "self_size">>, <<1, 100, 1,  2, 101, 5>>),
          NodeFieldsDoc(<<"type", "id", "self_size">>, <<3, 100, 1,  3, 101, 5>>),
          NodeFieldsDoc(<<"id">>, <<100, 101>>)}
    \cup RequestDocs

\* generated allocation traces: every tree of at most MaxTraceNodes nodes, in
\* pre-order; node i has id i, count i, a size of 0, 1 or 2, and is encoded
\* with the number of its children
TraceSizes == {0, 1, 2}

ValidDepths(dv) ==
  /\ dv[1] = 0
  /\ \A i \in 2..Len(dv) : dv[i] >= 1 /\ dv[i] <= dv[i - 1] + 1

DepthVectors ==
  UNION {{dv \in [1..n -> 0..(n - 1)] : ValidDepths(dv)} : n \in 1..MaxTraceNodes}

\* the children of node i: the nodes one level deeper that follow it before
\* any node of its own depth or less
ChildCount(dv, i) ==
  Cardinality({j \in (i + 1)..Len(dv) :
                 /\ dv[j] = dv[i] + 1
                 /\ \A k \in (i + 1)..(j - 1) : dv[k] > dv[i]})

TraceDoc(dv, sizes, fns) ==
  [ScenarioDoc EXCEPT
     !.depths = dv,
     !.trace_tree = Flatten([i \in 1..Len(dv) |->
                               <<i, fns[i], i, sizes[i], ChildCount(dv, i)>>])]

\* node i calls function i - 1: function 0 is "(root)", and a function past
\* the end of trace_function_infos gets a placeholder label
OwnFunctions(n) == [i \in 1..n |-> i - 1]

\* the root's child refers to function 0 as well, so both are labelled "(root)"
NamesakeDoc == TraceDoc(<<0, 1, 2>>, <<2, 2, 1>>, <<0, 0, 1>>)

\* the root announces two children and the sequence holds one
TruncatedTraceDoc ==
  [ScenarioDoc EXCEPT !.trace_tree = <<1, 0, 3, 6, 2,  2, 1, 3, 6, 0>>,
                      !.depths = <<0, 1, 1>>]

\* a generated trace (every node of size 1) whose trace_tree lost its last m
\* numbers: the child counts still announce the whole tree.  The root record
\* is kept whole
CutDoc(dv, m) ==
  LET whole == TraceDoc(dv, [i \in 1..Len(dv) |-> 1], OwnFunctions(Len(dv)))
  IN [whole EXCEPT !.trace_tree = SubSeq(whole.trace_tree, 1, Len(whole.trace_tree) - m)]

CutDocs ==
  UNION {{CutDoc(dv, m) : m \in 1..(Len(ScenarioDoc.trace_node_fields) * (Len(dv) - 1))} :
           dv \in DepthVectors}

\* function descriptors of every kind: 0 has a name and a file, 1 a file and a
\* name index past the string table, 2 a name and a file index past the table,
\* 3 a negative name index and no file, 4 the empty string as name and as
\* file; descriptor 5 is cut short
\* With short, the descriptors hold a name and a file only, the file as
\* scriptName.  The tree is root -> a -> b, a leaf of size 1, with the
\* functions of a and b chosen
LabelDoc(short, a, b) ==
  [TraceDoc(<<0, 1, 2>>, <<1, 1, 1>>, <<0, a, b>>) EXCEPT
     !.strings = <<"(root)", "Foo", "Bar", "app.js", "">>,
     !.trace_function_info_fields =
        IF short THEN <<"name", "scriptName">>
        ELSE ScenarioDoc.trace_function_info_fields,
     !.trace_function_infos =
        IF short THEN <<1, 3,  9, 3,  2, 9>>
        ELSE <<0, 1, 3, 20, 2,  1, 9, 3, 20, 2,  2, 2, 9, 50, 1,
               3, -1, 9, 0, 0,  4, 4, 4, 1, 1,  5, 1, 3>>]

\* the function indexes of the frames: negative, within the table, the cut
\* descriptor and past the end
LabelDocs == {LabelDoc(short, a, b) : short \in BOOLEAN, a \in -1..6, b \in -1..6}

\* the trace of the unit tests with other numbers in the root record: a
\* negative one, zero, and one larger than anything below the root
RootTotalsDoc(size, count) ==
  [ScenarioDoc EXCEPT
     !.trace_tree = <<1, 0, count, size, 1,  2, 1, 3, 6, 1,  3, 2, 2, 5, 0>>]
RootTotalsDocs == {RootTotalsDoc(size, count) : size \in {-2, 0, 7}, count \in {-2, 0, 7}}

\* child counts below zero (the root's, with a record after it that no count
\* announces, and a child's) and a trace_tree without a single record
OddCountDocs ==
  {[ScenarioDoc EXCEPT !.trace_tree = <<1, 0, 3, 6, -1,  2, 1, 3, 6, 0>>,
                       !.depths = <<0>>],
   [ScenarioDoc EXCEPT !.trace_tree = <<1, 0, 3, 6, 2,  2, 1, 3, 6, -2,  3, 2, 2, 5, 0>>,
                       !.depths = <<0, 1, 1>>],
   [ScenarioDoc EXCEPT !.trace_tree = <<>>, !.depths = <<0>>]}

TraceDocs ==
  UNION {{TraceDoc(dv, sizes, OwnFunctions(Len(dv))) :
            sizes \in [1..Len(dv) -> TraceSizes]} : dv \in DepthVectors}
    \cup CutDocs
    \cup RootTotalsDocs
    \cup LabelDocs
    \cup OddCountDocs
    \cup {NamesakeDoc, TruncatedTraceDoc, UnstructuredDoc}
    \cup RequestDocs

(***************************************************************************)
(* take_screenshot (tools/take-screenshot.ts, utils/screenshot-utils.ts).  *)
(* The image and its base64 text are measured, not spelled: a Buffer is    *)
(* its number of bytes and a string its number of characters.              *)
(***************************************************************************)
\* the divisor of every "KB" of the handler
KiB == 1024
\* args.maxBase64SizeKB || 100
DefaultMaxBase64SizeKB == 100
\* PNG_BASE64_DATA_URI_PREFIX.length ('data:image/png;base64,')
PrefixLength == 22

\* Math.ceil(a / b) and Math.round(a / b) for a >= 0 and b > 0
Ceil(a, b) == (a + b - 1) \div b
Round(a, b) == (2 * a + b) \div (2 * b)

\* screenshot.toString('base64').length: four characters per three bytes,
\* the last group padded
Base64Length(bytes) == 4 * Ceil(bytes, 3)

\* `${PNG_BASE64_DATA_URI_PREFIX}${screenshot.toString('base64')}`
DataUri(bytes) == [prefixed |-> TRUE, length |-> PrefixLength + Base64Length(bytes)]

\* calculateBase64Size: the prefix is removed, then Math.ceil(length * 3 / 4)
calculateBase64Size(base64) ==
  LET base64Data == IF base64.prefixed THEN base64.length - PrefixLength
                    ELSE base64.length
  IN  Ceil(base64Data * 3, 4)

\* args.maxBase64SizeKB || 100 (0 stands for an absent argument, which ||
\* treats as it treats 0)
thresholdKB(maxBase64SizeKB) ==
  IF maxBase64SizeKB = 0 THEN DefaultMaxBase64SizeKB ELSE maxBase64SizeKB

\* the arguments of a call: outputMode left out takes the auto branch
ShotModes == {"auto", "file", "inline", "undefined"}
ShotThresholds == {0, 50, DefaultMaxBase64SizeKB}
ShotArgs == [outputMode : ShotModes, maxBase64SizeKB : ShotThresholds,
             filePath : {"caller", "undefined"}]

\* the sizes in bytes of the images page.screenshot may return
ImageSizes == {(k * KiB) \div ShotGrain : k \in 0..(MaxImageKB * ShotGrain)}

\* saveScreenshotToFile: filePath ?? ./screenshots/screenshot-<time>-<uuid>.png
finalPath(filePath) == IF filePath = "undefined" THEN "default" ELSE filePath

NoShot == [pc |-> "idle"]

\* before the walk: nothing read, both stacks empty
NoWalk == [started |-> FALSE, d |-> NoDoc, topN |-> 0, reads |-> <<>>,
           w |-> [cursor |-> 0, callStack |-> <<>>, childStack |-> <<>>,
                  top |-> <<>>, candidates |-> <<>>, truncated |-> FALSE]]

(***************************************************************************)
(* Concurrent requests: the tool calls of one HeapHandler run as async     *)
(* functions on one thread and interleave at their awaits.                 *)
(***************************************************************************)
\* the two requests that run at the same time
CallIds == {1, 2}
\* what a call has read before it reads, and what it reads where no file is
NoFile == [path |-> <<"unset">>, by |-> 0, wrote |-> {}]
MissingFile == [path |-> <<"missing">>, by |-> 0, wrote |-> {}]

\* a call not made yet
NoCall == [pc |-> "idle",
           params |-> [kind |-> "none", url |-> "none", exportMode |-> "none",
                       exportFilePath |-> "undefined"],
           page |-> <<>>, tracking |-> FALSE, beganDuring |-> {}, openedAt |-> 0,
           snapshotFilePath |-> <<"unset">>, received |-> FALSE, read |-> NoFile,
           outcome |-> "pending"]
NoCalls == [c \in CallIds |-> NoCall]

(***************************************************************************)
(* Request handlers: getHeapSnapshot and trackAllocations                  *)
(***************************************************************************)
NoGate == [reached |-> FALSE, fileSize |-> 0, maxParseBytes |-> 0, topN |-> 0,
           decoderInvoked |-> FALSE, decodeOk |-> FALSE, candidates |-> <<>>]
NoResult == [returned |-> FALSE]

\* the requests: maxInlineBytes is read only when an inline payload is asked
\* for, so the other modes are given one value of it
Requests ==
  {r \in [kind : Kinds, exportMode : ExportModes,
          maxInlineBytes : 1..MaxBudget, maxSnapshotBytes : 1..MaxBudget] :
     r.exportMode \in {"none", "file"} => r.maxInlineBytes = MaxBudget}

Init ==
  /\ pc = "idle"
  /\ req \in Requests
  /\ outcome = "pending"
  /\ session = "none"
  /\ tracking = FALSE
  /\ exportFilePath = "undefined"
  /\ snapshotFilePath = "unset"
  /\ files = {}
  /\ fileContent = <<>>
  /\ stream = "none"
  /\ listening = FALSE
  /\ totalReceivedBytes = 0
  /\ fileBytesWritten = 0
  /\ snapshotTruncated = FALSE
  /\ streamError = FALSE
  /\ inlineChunks = <<>>
  /\ inlineBytes = 0
  /\ inlineTruncated = FALSE
  /\ limitations = <<>>
  /\ delivered = <<>>
  /\ written = <<>>
  /\ doc = NoDoc
  /\ gate = NoGate
  /\ result = NoResult
  /\ issued = <<>>
  /\ decodes = <<>>
  /\ shot = NoShot
  /\ calls = NoCalls
  /\ disk = {}
  /\ walk = NoWalk

\* one entry of the command log
Cmd(name, ok) == [cmd |-> name, ok |-> ok]

\* an await inside the handler's try block rejects: the finally block is next
Throws == pc' = "detach" /\ outcome' = "thrown"

\* browserManager.getPage and createCDPSession, before the try block
Attach ==
  /\ pc = "idle"
  /\ \/ session' = "attached" /\ pc' = "enable" /\ UNCHANGED outcome
     \/ pc' = "done" /\ outcome' = "thrown" /\ UNCHANGED session
  /\ UNCHANGED <<req, tracking, exportFilePath, snapshotFilePath, files, stream,
                 listening, streamError, limitations, delivered, doc, gate,
                 result, sinkVars, issued, decodes, shot, calls, disk, walk>>

\* await client.send('HeapProfiler.enable') (Runtime.enable's failure is
\* ignored)
Enable ==
  /\ pc = "enable"
  /\ \/ pc' = "gc" /\ UNCHANGED outcome /\ issued' = Append(issued, Cmd("enable", TRUE))
     \/ Throws /\ issued' = Append(issued, Cmd("enable", FALSE))
  /\ UNCHANGED <<req, session, tracking, exportFilePath, snapshotFilePath, files,
                 stream, listening, streamError, limitations, delivered, doc,
                 gate, result, sinkVars, decodes, shot, calls, disk, walk>>

\* faulty variant: a failed garbage collection rejects the request
AfterCollectGarbageFatal(ok) ==
  IF ok THEN [pc |-> "measure", outcome |-> "pending"]
  ELSE [pc |-> "detach", outcome |-> "thrown"]

\* where the handler stands after send('HeapProfiler.collectGarbage')
\* .catch(() => {}) has settled
AfterCollectGarbage(ok) == [pc |-> "measure", outcome |-> "pending"]

\* if (params.collectGarbage) await send('HeapProfiler.collectGarbage')
\*   .catch(() => {})
CollectGarbage ==
  /\ pc = "gc"
  /\ \E collectGarbage \in BOOLEAN, ok \in BOOLEAN :
       IF collectGarbage
       THEN /\ issued' = Append(issued, Cmd("collectGarbage", ok))
            /\ pc' = AfterCollectGarbage(ok).pc
            /\ outcome' = AfterCollectGarbage(ok).outcome
       ELSE /\ ok
            /\ pc' = "measure"
            /\ UNCHANGED <<issued, outcome>>
  /\ UNCHANGED <<req, session, tracking, exportFilePath, snapshotFilePath,
                 files, stream, listening, streamError, limitations, delivered,
                 doc, gate, result, sinkVars, decodes, shot, calls, disk, walk>>

\* Runtime.getHeapUsage (failure ignored) and page.evaluate of
\* performance.memory; getPerformanceMemoryUsedBytes in trackAllocations
Measure ==
  /\ pc = "measure"
  /\ \/ /\ pc' = (IF req.kind = "heap" THEN "open" ELSE "start") /\ UNCHANGED outcome
        /\ issued' = Append(issued, Cmd("measure", TRUE))
     \/ /\ Throws
        /\ issued' = Append(issued, Cmd("measure", FALSE))
  /\ UNCHANGED <<req, session, tracking, exportFilePath, snapshotFilePath, files,
                 stream, listening, streamError, limitations, delivered, doc,
                 gate, result, sinkVars, decodes, shot, calls, disk, walk>>

\* await send('HeapProfiler.startTrackingHeapObjects', {trackAllocations: true})
StartTracking ==
  /\ pc = "start"
  /\ \/ /\ tracking' = TRUE /\ pc' = "wait" /\ UNCHANGED outcome
        /\ issued' = Append(issued, Cmd("startTracking", TRUE))
     \/ /\ Throws /\ UNCHANGED tracking
        /\ issued' = Append(issued, Cmd("startTracking", FALSE))
  /\ UNCHANGED <<req, session, exportFilePath, snapshotFilePath, files, stream,
                 listening, streamError, limitations, delivered, doc, gate,
                 result, sinkVars, decodes, shot, calls, disk, walk>>

\* faulty variant: tracking is stopped right after the wait, before the capture
AfterWaitStops == "stop"

\* the step of trackAllocations that follows the wait: captureHeapSnapshotRaw
AfterWait == "open"

\* await new Promise(resolve => setTimeout(resolve, durationMs))
Wait ==
  /\ pc = "wait"
  /\ pc' = AfterWait
  /\ issued' = Append(issued, Cmd("wait", TRUE))
  /\ UNCHANGED <<req, outcome, session, tracking, exportFilePath, snapshotFilePath,
                 files, stream, listening, streamError, limitations, delivered,
                 doc, gate, result, sinkVars, decodes, shot, calls, disk, walk>>

\* snapshotFilePath of captureHeapSnapshotRaw
ChoosePath(returnFile, filePath) ==
  IF returnFile THEN (IF filePath # "undefined" THEN filePath ELSE "default")
  ELSE "temp"

\* captureHeapSnapshotRaw up to the send of takeHeapSnapshot: choose the
\* path, mkdir, createWriteStream, wait for 'open', register onChunk
OpenSink ==
  /\ pc = "open"
  /\ \E filePath \in {"caller", "undefined"} :
       /\ exportFilePath' = filePath
       /\ snapshotFilePath' = ChoosePath(shouldReturnFile, filePath)
       /\ \/ /\ files' = files \cup {ChoosePath(shouldReturnFile, filePath)}
             /\ stream' = "open"
             /\ listening' = TRUE
             /\ pc' = "capture"
             /\ issued' = Append(issued, Cmd("open", TRUE))
             /\ UNCHANGED <<outcome, streamError>>
          \/ /\ streamError' = TRUE
             /\ stream' = "errored"
             /\ Throws
             /\ issued' = Append(issued, Cmd("open", FALSE))
             /\ UNCHANGED <<files, listening>>
  /\ UNCHANGED <<req, session, tracking, limitations, delivered, doc, gate,
                 result, sinkVars, decodes, shot, calls, disk, walk>>

\* the write stream emits 'error' while chunks may still arrive
StreamErrorEvent ==
  /\ pc = "capture"
  /\ stream = "open"
  /\ streamError' = TRUE
  /\ stream' = "errored"
  /\ UNCHANGED <<pc, req, outcome, session, tracking, exportFilePath,
                 snapshotFilePath, files, listening, limitations, delivered,
                 doc, gate, result, sinkVars, issued, decodes, shot, calls, disk, walk>>

\* await send('HeapProfiler.takeHeapSnapshot') settles; on success the
\* listener is removed.  The command is sent once the listener is registered
\* and nothing but chunk events comes between the send and the settlement,
\* so the command is logged where it settles
TakeSnapshotSettles ==
  /\ pc = "capture"
  /\ \/ /\ listening' = FALSE
        /\ pc' = "finalize"
        /\ issued' = Append(issued, Cmd("takeHeapSnapshot", TRUE))
        /\ UNCHANGED outcome
     \/ /\ Throws /\ UNCHANGED listening
        /\ issued' = Append(issued, Cmd("takeHeapSnapshot", FALSE))
  /\ UNCHANGED <<req, session, tracking, exportFilePath, snapshotFilePath, files,
                 stream, streamError, limitations, delivered, doc, gate, result,
                 sinkVars, decodes, shot, calls, disk, walk>>

\* faulty variant: the capture goes on without waiting for 'finish'
StreamAfterEndNotAwaited(s) == s

\* the write stream once the promise around stream.end() has resolved: an open
\* stream has emitted 'finish'
StreamAfterEnd(s) == IF s = "open" THEN "finished" ELSE s

\* stream.end() and the wait for 'finish' or 'error'.  What end() does on a
\* stream that has already failed is not decided by the handler: both
\* outcomes are kept
FinalizeStream ==
  /\ pc = "finalize"
  /\ \/ /\ stream' = StreamAfterEnd(stream)
        /\ pc' = (IF req.kind = "heap" THEN "parse" ELSE "stop")
        /\ UNCHANGED <<outcome, streamError>>
     \/ /\ streamError' = TRUE
        /\ stream' = "errored"
        /\ Throws
  /\ UNCHANGED <<req, session, tracking, exportFilePath, snapshotFilePath, files,
                 listening, limitations, delivered, doc, gate, result, sinkVars,
                 issued, decodes, shot, calls, disk, walk>>

\* send('HeapProfiler.stopTrackingHeapObjects'), then
\* getPerformanceMemoryUsedBytes
StopTracking ==
  /\ pc = "stop"
  /\ \/ /\ tracking' = FALSE /\ pc' = "parse" /\ UNCHANGED outcome
        /\ issued' = issued \o <<Cmd("stopTracking", TRUE), Cmd("measure", TRUE)>>
     \/ /\ tracking' = FALSE /\ Throws
        /\ issued' = issued \o <<Cmd("stopTracking", TRUE), Cmd("measure", FALSE)>>
     \/ /\ Throws /\ UNCHANGED tracking
        /\ issued' = Append(issued, Cmd("stopTracking", FALSE))
  /\ UNCHANGED <<req, session, exportFilePath, snapshotFilePath, files, stream,
                 listening, streamError, limitations, delivered, doc, gate,
                 result, sinkVars, decodes, shot, calls, disk, walk>>

\* faulty variant of exportInfo: the file fields are filled in every mode
ExportInfoAlwaysFile ==
  [mode |-> req.exportMode,
   filePath |-> snapshotFilePath,
   fileBytes |-> fileBytesWritten,
   inline |-> IF shouldReturnInline THEN <<Join(inlineChunks)>> ELSE <<>>,
   inlineBytes |-> IF shouldReturnInline THEN inlineBytes ELSE NoNumber,
   truncated |-> (snapshotTruncated \/ inlineTruncated),
   maxInlineBytes |-> IF shouldReturnInline THEN req.maxInlineBytes ELSE NoNumber]

\* exportInfo of captureHeapSnapshotRaw.  An undefined field is "undefined"
\* for a path, NoNumber for a number and FALSE for truncated; inline is
\* <<text>> when the payload is present, even if the text is empty, and <<>>
\* when it is undefined
ExportInfo ==
  [mode |-> req.exportMode,
   filePath |-> IF shouldReturnFile THEN snapshotFilePath ELSE "undefined",
   fileBytes |-> IF shouldReturnFile THEN fileBytesWritten ELSE NoNumber,
   inline |-> IF shouldReturnInline THEN <<Join(inlineChunks)>> ELSE <<>>,
   inlineBytes |-> IF shouldReturnInline THEN inlineBytes ELSE NoNumber,
   truncated |-> (snapshotTruncated \/ inlineTruncated),
   maxInlineBytes |-> IF shouldReturnInline THEN req.maxInlineBytes ELSE NoNumber]

\* stat(snapshotFilePath).size ?? fileBytesWritten
StatSize ==
  IF snapshotFilePath \in files THEN ByteLength(fileContent) ELSE fileBytesWritten

\* JSON.parse(await readFile(snapshotFilePath, 'utf8')): the page's document d
\* when the file holds the whole delivered text, a syntax error when it holds
\* less
ReadDocument(d) == IF fileContent = Join(delivered) THEN d ELSE InvalidDoc

\* faulty variant of the parse gate: a file of exactly maxParseBytes is skipped
ParseGateStrict(error, truncated, fileSize, maxParseBytes) ==
  IF error THEN "error"
  ELSE IF truncated THEN "truncated"
  ELSE IF fileSize >= maxParseBytes THEN "toolarge"
  ELSE "parse"

\* the parse gate: "error" (streamError is thrown), "truncated", "toolarge"
\* or "parse"
ParseGate(error, truncated, fileSize, maxParseBytes) ==
  IF error THEN "error"
  ELSE IF truncated THEN "truncated"
  ELSE IF fileSize > maxParseBytes THEN "toolarge"
  ELSE "parse"

\* the summary of getHeapSnapshot
HeapSummary(parsed, r) ==
  [defined |-> TRUE, parsed |-> parsed,
   totalNodes |-> IF parsed THEN r.totalNodes ELSE NoNumber,
   totalSizeBytes |-> IF parsed THEN r.totalSizeBytes ELSE NoNumber,
   topConstructors |-> IF parsed THEN r.topConstructors ELSE <<>>,
   topNodes |-> IF parsed THEN r.topNodes ELSE <<>>]

\* the summary of trackAllocations: undefined when parsing was skipped,
\* {parsed: false} when it threw, the decoder's summary otherwise
AllocSummary(decision, r) ==
  IF decision = "parse" /\ r.ok
  THEN [defined |-> TRUE, parsed |-> TRUE,
        totalAllocatedBytes |-> r.totalAllocatedBytes,
        totalCount |-> r.totalCount, topStacks |-> r.topStacks]
  ELSE [defined |-> decision \in {"parse", "error"}, parsed |-> FALSE,
        totalAllocatedBytes |-> NoNumber, totalCount |-> NoNumber,
        topStacks |-> <<>>]

\* faulty variant of the cleanup: the temporary file is never removed
AfterCleanupKeeps(returnFile, isTempFile, path, existing) == existing

\* the files left after the finally block of the parse step
AfterCleanup(returnFile, isTempFile, path, existing) ==
  IF ~returnFile /\ isTempFile THEN existing \ {path} ELSE existing

\* faulty variant of the catch block: a decode failure leaves no limitation
ParseLimitationsSilent(lims, decision, failed) ==
  IF decision = "toolarge" THEN Append(lims, LimExceededParse) ELSE lims

\* the limitations after the try/catch around the decoder
ParseLimitations(lims, decision, failed) ==
  IF decision = "toolarge" THEN Append(lims, LimExceededParse)
  ELSE IF failed THEN Append(lims, LimParseFailed)
  ELSE lims

\* faulty variant of the decoders: the handler keeps the summary of its last
\* decode and hands it out again for the next document of the same kind
DecodeSticky(kind, d, topN) ==
  IF decodes # <<>> /\ decodes[Len(decodes)].kind = kind
  THEN decodes[Len(decodes)].summary
  ELSE IF kind = "heap" THEN parseV8HeapSnapshot(d, topN)
       ELSE parseV8HeapSnapshotAllocationTrace(d, topN)

\* this.parseV8HeapSnapshot(raw, topN) in getHeapSnapshot and
\* this.parseV8HeapSnapshotAllocationTrace(raw, topN) in trackAllocations
Decode(kind, d, topN) ==
  IF kind = "heap" THEN parseV8HeapSnapshot(d, topN)
  ELSE parseV8HeapSnapshotAllocationTrace(d, topN)

\* faulty variant: a rejected detach replaces the request's outcome
DetachOutcomeRethrows(ok, out) == IF ok THEN out ELSE "thrown"

\* the request's outcome after finally { try { await client.detach() }
\* catch { } }: out is the outcome of the try block
DetachOutcome(ok, out) == out

\* the session after client.detach() has settled
SessionAfterDetach(ok) == IF ok THEN "detached" ELSE session

\* from the parse gate to the end of the handler: stat, readFile, decode, the
\* catch and finally blocks, the assembly of the result, the return and the
\* detach of the outer finally block.  docs are the documents the page's
\* snapshot may be and topNs the values of params.topN
ParseAndReturnFrom(docs, topNs) ==
  /\ pc = "parse"
  /\ \E maxParseBytes \in 1..MaxBudget :
       LET decision == ParseGate(streamError, snapshotTruncated, StatSize, maxParseBytes)
       IN
       \E topN \in (IF decision = "parse" THEN topNs ELSE {DefaultTopN}),
          d \in (IF decision = "parse" /\ doc = NoDoc THEN docs ELSE {doc}) :
         LET r == IF decision # "parse" THEN [ok |-> FALSE]
                  ELSE Decode(req.kind, ReadDocument(d), topN)
             parsed == decision = "parse" /\ r.ok
             failed == decision = "error" \/ (decision = "parse" /\ ~r.ok)
             lim1 == ParseLimitations(limitations, decision, failed)
             lim2 == IF req.kind = "heap" /\ parsed /\ r.totalNodes > Len(r.topNodes)
                     THEN Append(lim1, LimLegacyNodes) ELSE lim1
         IN
         /\ doc' = d
         /\ decodes' = IF decision = "parse"
                       THEN Append(decodes, [kind |-> req.kind,
                                             doc |-> ReadDocument(d),
                                             topN |-> topN, summary |-> r])
                       ELSE decodes
         /\ gate' = [reached |-> TRUE, fileSize |-> StatSize,
                     maxParseBytes |-> maxParseBytes, topN |-> topN,
                     decoderInvoked |-> decision = "parse", decodeOk |-> parsed,
                     candidates |-> IF parsed /\ req.kind = "alloc"
                                    THEN r.candidates ELSE <<>>]
         /\ limitations' = lim2
         /\ files' = AfterCleanup(shouldReturnFile, ~shouldReturnFile, snapshotFilePath, files)
         /\ result' = [returned |-> TRUE,
                       summary |-> IF req.kind = "heap" THEN HeapSummary(parsed, r)
                                   ELSE AllocSummary(decision, r),
                       export |-> ExportInfo,
                       limitations |-> lim2]
  /\ \E ok \in BOOLEAN :
       /\ issued' = Append(issued, Cmd("detach", ok))
       /\ session' = SessionAfterDetach(ok)
       /\ outcome' = DetachOutcome(ok, "returned")
  /\ pc' = "done"
  /\ UNCHANGED <<req, tracking, exportFilePath, snapshotFilePath, stream,
                 listening, streamError, delivered, totalReceivedBytes,
                 fileBytesWritten, snapshotTruncated, inlineChunks, inlineBytes,
                 inlineTruncated, written, fileContent, shot, calls, disk, walk>>

ParseAndReturn == ParseAndReturnFrom(RequestDocs, RequestTopNs)

\* finally { try { await client.detach() } catch { } } after a throw
Detach ==
  /\ pc = "detach"
  /\ \E ok \in BOOLEAN :
       /\ issued' = Append(issued, Cmd("detach", ok))
       /\ session' = SessionAfterDetach(ok)
       /\ outcome' = DetachOutcome(ok, outcome)
  /\ pc' = "done"
  /\ UNCHANGED <<req, tracking, exportFilePath, snapshotFilePath, files,
                 stream, listening, streamError, limitations, delivered, doc,
                 gate, result, sinkVars, decodes, shot, calls, disk, walk>>

Next ==
  \/ Attach
  \/ Enable
  \/ CollectGarbage
  \/ Measure
  \/ StartTracking
  \/ Wait
  \/ OpenSink
  \/ \E chunk \in Chunks : OnChunk(chunk)
  \/ StreamErrorEvent
  \/ TakeSnapshotSettles
  \/ FinalizeStream
  \/ StopTracking
  \/ ParseAndReturn
  \/ Detach

Spec == Init /\ [][Next]_vars

(***************************************************************************)
(* The decoders over generated documents.  The handler stands after a      *)
(* capture that filled the file budget exactly under export mode none,     *)
(* nothing truncated and no write-stream error (both initial states are    *)
(* states of Spec); the page's snapshot is any of the generated documents. *)
(***************************************************************************)
\* the chunks of a capture of exactly MaxBudget bytes
DecodeChunks ==
  CHOOSE cs \in UNION {[1..n -> Chunks \ {<<>>}] : n \in 1..MaxChunks} :
    ByteLength(Join(cs)) = MaxBudget

DecodeInit ==
  /\ pc = "parse"
  /\ req \in {r \in Requests : r.exportMode = "none" /\ r.maxSnapshotBytes = MaxBudget}
  /\ outcome = "pending"
  /\ session = "attached"
  /\ tracking = FALSE
  /\ exportFilePath = "undefined"
  /\ snapshotFilePath = "temp"
  /\ files = {"temp"}
  /\ fileContent = Join(DecodeChunks)
  /\ stream = "finished"
  /\ listening = FALSE
  /\ totalReceivedBytes = MaxBudget
  /\ fileBytesWritten = MaxBudget
  /\ snapshotTruncated = FALSE
  /\ streamError = FALSE
  /\ inlineChunks = <<>>
  /\ inlineBytes = 0
  /\ inlineTruncated = FALSE
  /\ limitations = <<>>
  /\ delivered = DecodeChunks
  /\ written = DecodeChunks
  /\ doc = NoDoc
  /\ gate = NoGate
  /\ result = NoResult
  /\ issued = IF req.kind = "heap"
              THEN <<Cmd("enable", TRUE), Cmd("measure", TRUE),
                     Cmd("open", TRUE), Cmd("takeHeapSnapshot", TRUE)>>
              ELSE <<Cmd("enable", TRUE), Cmd("measure", TRUE),
                     Cmd("startTracking", TRUE), Cmd("wait", TRUE),
                     Cmd("open", TRUE), Cmd("takeHeapSnapshot", TRUE),
                     Cmd("stopTracking", TRUE), Cmd("measure", TRUE)>>
  /\ decodes = <<>>
  /\ shot = NoShot
  /\ calls = NoCalls
  /\ disk = {}
  /\ walk = NoWalk

DecodeDocs == IF req.kind = "heap" THEN HeapDocs ELSE TraceDocs

DecodeNext == ParseAndReturnFrom(DecodeDocs, TopNs)

SpecDecode == DecodeInit /\ [][DecodeNext]_vars

(***************************************************************************)
(* Repeated decoder calls on one HeapHandler: the documents of successive  *)
(* requests reach the two decoders in any order.  The handler is idle;     *)
(* only the log of decoder calls changes.                                  *)
(***************************************************************************)
\* the calls: either decoder, on a document it summarises or on one it
\* rejects, with a topN that cuts the lists and one that does not
RepeatInputs ==
  ([kind : {"heap"}, doc : {ScenarioDoc, StrayNameDoc, UnstructuredDoc},
    topN : {1, DefaultTopN}])
    \cup
  ([kind : {"alloc"}, doc : {ScenarioDoc, NamesakeDoc, TruncatedTraceDoc},
    topN : {0, DefaultTopN}])

RepeatInit ==
  /\ Init
  /\ req = [kind |-> "heap", exportMode |-> "none",
            maxInlineBytes |-> MaxBudget, maxSnapshotBytes |-> MaxBudget]

DecodeAgain ==
  /\ pc = "idle"
  /\ Len(decodes) < MaxDecodes
  /\ \E in \in RepeatInputs :
       decodes' = Append(decodes, [kind |-> in.kind, doc |-> in.doc, topN |-> in.topN,
                                   summary |-> Decode(in.kind, in.doc, in.topN)])
  /\ UNCHANGED <<pc, req, outcome, session, tracking, exportFilePath,
                 snapshotFilePath, files, stream, listening, streamError,
                 limitations, delivered, doc, gate, result, sinkVars, issued,
                 shot, calls, disk, walk>>

RepeatNext == DecodeAgain

SpecRepeat == RepeatInit /\ [][RepeatNext]_vars

(***************************************************************************)
(* One take_screenshot call, from the Buffer page.screenshot returned to   *)
(* the handler's return.  The heap handler is idle.                        *)
(***************************************************************************)
ShotInit == RepeatInit

\* the handler after page.screenshot: the three branches on args.outputMode;
\* saved is whether mkdir, writeFile and stat of saveScreenshotToFile succeed
TakeScreenshot ==
  /\ shot.pc = "idle"
  /\ \E args \in ShotArgs, bytes \in ImageSizes :
       LET base64String == DataUri(bytes)
           base64SizeKB == Round(calculateBase64Size(base64String), KiB)
           toFile == \/ args.outputMode = "file"
                     \/ /\ args.outputMode # "inline"
                        /\ ~(base64SizeKB <= thresholdKB(args.maxBase64SizeKB))
       IN
       \E saved \in (IF toFile THEN BOOLEAN ELSE {TRUE}) :
         shot' = [pc |-> "done", args |-> args, bytes |-> bytes,
                  returned |-> IF ~toFile THEN "base64"
                               ELSE IF saved THEN "path" ELSE "thrown",
                  base64 |-> IF toFile THEN 0 ELSE base64String.length,
                  sizeKB |-> IF toFile /\ saved THEN Round(bytes, KiB) ELSE 0,
                  written |-> IF toFile /\ saved THEN {finalPath(args.filePath)}
                              ELSE {}]
  /\ UNCHANGED <<requestVars, calls, disk, walk>>

ShotNext == TakeScreenshot

SpecShot == ShotInit /\ [][ShotNext]_vars

(***************************************************************************)
(* The walk of parseV8HeapSnapshotAllocationTrace, one iteration of its    *)
(* while loop at a time.  walk.reads records the cursor of every readNode   *)
(* that went through.                                                      *)
(***************************************************************************)
\* the trees the walk is followed on: every shape of up to MaxTraceNodes
\* nodes with all sizes 0 and all sizes 1, every such tree with its end cut
\* off, and the trees with negative counts and without records
WalkTrees ==
  {TraceDoc(dv, [i \in 1..Len(dv) |-> size], OwnFunctions(Len(dv))) :
     dv \in DepthVectors, size \in {0, 1}}
    \cup CutDocs
    \cup OddCountDocs
    \cup {NamesakeDoc, TruncatedTraceDoc, MissingSizeDoc}

\* the documents that pass the decoder's checks before the root is read
WalkDocs ==
  {d \in WalkTrees :
     /\ d.valid /\ d.trace_structure
     /\ idxFnInfoOf(d) >= 0 /\ idxCountOf(d) >= 0 /\ idxSizeOf(d) >= 0}

\* const root = readNode(); callStack.push(...); childStack.push(...)
ReadRoot ==
  /\ ~walk.started
  /\ \E d \in WalkDocs, topN \in TopNs :
       walk' = IF CanReadNode(d, 0)
               THEN [started |-> TRUE, d |-> d, topN |-> topN, w |-> WalkAtRoot(d),
                     reads |-> <<0>>]
               ELSE [started |-> TRUE, d |-> d, topN |-> topN,
                     w |-> [NoWalk.w EXCEPT !.truncated = TRUE], reads |-> <<>>]
  /\ UNCHANGED <<requestVars, shot, calls, disk>>

\* one iteration of while (childStack.length > 0)
WalkIteration ==
  /\ walk.started
  /\ walk.w.childStack # <<>>
  /\ ~walk.w.truncated
  /\ LET next == TraceStep(walk.d, walk.topN, walk.w)
     IN walk' = [walk EXCEPT
                   !.w = next,
                   !.reads = IF next.cursor # walk.w.cursor
                             THEN Append(@, walk.w.cursor) ELSE @]
  /\ UNCHANGED <<requestVars, shot, calls, disk>>

SpecWalk == RepeatInit /\ [][ReadRoot \/ WalkIteration]_vars

\* the loop is synchronous code: once entered it runs its iterations without
\* yielding
SpecWalkFair == SpecWalk /\ WF_vars(WalkIteration)

(***************************************************************************)
(* Properties of the capture and of the request handlers, checked under    *)
(* Spec                                                                    *)
(***************************************************************************)
Range(seq) == {seq[i] : i \in 1..Len(seq)}
Min(a, b) == IF a < b THEN a ELSE b

\* takeHeapSnapshot has settled and the listener is removed: the capture is
\* being finalized, or is over
Finalized == pc \in {"finalize", "stop", "parse"} \/ outcome = "returned"

\* the bytes of all chunks delivered to onChunk
DeliveredBytes == ByteLength(Join(delivered))

\* the bytes written to the file never exceed maxSnapshotBytes
WrittenWithinBudget ==
  /\ fileBytesWritten <= req.maxSnapshotBytes
  /\ ByteLength(Join(written)) <= req.maxSnapshotBytes
  /\ ByteLength(fileContent) <= req.maxSnapshotBytes

\* more delivered than maxSnapshotBytes: at finalization the file is flagged
\* truncated and a limitation says so (the budget was exceeded, or writing
\* stopped after a write failure)
OverflowFlagged ==
  (Finalized /\ DeliveredBytes > req.maxSnapshotBytes) =>
     /\ snapshotTruncated
     /\ Range(limitations) \cap {LimExceededSnapshot, LimWriteFailed} # {}

\* a step of onChunk whose chunk brings the bytes received to exactly
\* maxSnapshotBytes writes that chunk; with errorFree, only steps taken
\* while no write-stream error is recorded are required to
ExactFitWritten(errorFree) ==
  LET chunk == delivered'[Len(delivered')]
  IN (/\ delivered' # delivered
      /\ chunk # <<>>
      /\ ByteLength(Join(delivered')) = req.maxSnapshotBytes
      /\ (errorFree => ~streamError))
     => /\ written' = Append(written, chunk)
        /\ fileContent' = fileContent \o chunk
        /\ fileBytesWritten' = fileBytesWritten + ByteLength(chunk)

\* C1 as stated: the bytes written never exceed maxSnapshotBytes; every chunk
\* that brings the received bytes to exactly maxSnapshotBytes is written; and
\* when more than maxSnapshotBytes were delivered, finalization finds the
\* truncation flag set and a limitation describing it.  Refuted: a chunk that
\* arrives after a write-stream error is dropped even when it fits exactly.
C1_FileBudget ==
  [](WrittenWithinBudget /\ OverflowFlagged) /\ [][ExactFitWritten(FALSE)]_vars

\* C1, amended: as C1, except that the chunk reaching exactly maxSnapshotBytes
\* is written provided no write-stream error has been recorded when it
\* arrives.
C1_FileBudgetUnlessWriteError ==
  [](WrittenWithinBudget /\ OverflowFlagged) /\ [][ExactFitWritten(TRUE)]_vars

\* a chunk filled the budget exactly and was written, a later chunk overflowed
C1_ExactFitThenOverflow ==
  /\ Finalized
  /\ ~streamError
  /\ Len(delivered) = 2
  /\ written = <<delivered[1]>>
  /\ fileBytesWritten = req.maxSnapshotBytes
  /\ DeliveredBytes > req.maxSnapshotBytes
  /\ snapshotTruncated

\* C2 as stated: in modes inline and both the inline payload's byte length
\* never exceeds maxInlineBytes, and when more than maxInlineBytes were
\* delivered the export is flagged truncated at finalization.  Refuted by a
\* chunk of multi-byte characters: the slice is measured in code units.
C2_InlineBudget ==
  shouldReturnInline =>
     /\ inlineBytes <= req.maxInlineBytes
     /\ ByteLength(Join(inlineChunks)) <= req.maxInlineBytes
     /\ (Finalized /\ DeliveredBytes > req.maxInlineBytes) => ExportInfo.truncated

\* the capture is untruncated, no write-stream error is recorded and the file
\* is within maxParseBytes
WithinParseGate ==
  /\ ~snapshotTruncated
  /\ ~streamError
  /\ ByteLength(fileContent) <= gate.maxParseBytes

\* documents the decoder of the request's kind rejects
DecodeFails(kind, d) ==
  \/ ~d.valid
  \/ kind = "heap" /\ IndexOf(d.node_fields, "self_size") < 0
  \/ kind = "alloc" /\ IndexOfEither(d.trace_node_fields, "size", "size_bytes") < 0

\* C3: for both handlers, when the captured document is untruncated and
\* within maxParseBytes and the decoder fails, the request returns a result
\* whose summary has parsed = false and whose limitations hold the decode
\* failure; nothing is thrown.
C3_DecodeFailureReturns ==
  (/\ gate.reached
   /\ WithinParseGate
   /\ (DecodeFails(req.kind, doc) \/ ~gate.decodeOk))
  => /\ outcome = "returned"
     /\ pc = "done"
     /\ result.returned
     /\ result.summary.defined
     /\ result.summary.parsed = FALSE
     /\ LimParseFailed \in Range(result.limitations)

\* trackAllocations returned for a document whose trace_node_fields lack size
C3_MissingSizeReturned ==
  /\ gate.reached
  /\ gate.decoderInvoked
  /\ req.kind = "alloc"
  /\ doc = MissingSizeDoc
  /\ outcome = "returned"

\* a limitation explains why the decoder was not invoked
SkipExplained ==
  /\ snapshotTruncated =>
        Range(result.limitations) \cap {LimExceededSnapshot, LimWriteFailed} # {}
  /\ (streamError /\ ~snapshotTruncated) => LimParseFailed \in Range(result.limitations)
  /\ (~snapshotTruncated /\ ~streamError) => LimExceededParse \in Range(result.limitations)

\* C4: the decoder is invoked exactly when the sink reported no truncation,
\* no write-stream error is recorded and the file on disk is at most
\* maxParseBytes (equal included); when it is not invoked, a limitation
\* explains the skip.
C4_ParseGate ==
  gate.reached =>
     /\ gate.decoderInvoked <=> WithinParseGate
     /\ gate.fileSize = ByteLength(fileContent)
     /\ ~gate.decoderInvoked => SkipExplained

\* the decoder ran on a file of exactly maxParseBytes
C4_ParsedAtExactSize ==
  /\ gate.reached
  /\ gate.decoderInvoked
  /\ ByteLength(fileContent) = gate.maxParseBytes

\* C10: after a normal return, in modes none and inline the capture file is
\* gone and the result has no filePath; in modes file and both the file
\* exists at export.filePath (the caller's path when one was given), holds
\* the concatenation of the chunks written, and export.fileBytes is the
\* number of bytes written.
C10_FileAfterReturn ==
  outcome = "returned" =>
     IF req.exportMode \in {"none", "inline"}
     THEN /\ snapshotFilePath \notin files
          /\ result.export.filePath = "undefined"
     ELSE /\ result.export.filePath \in files
          /\ result.export.filePath = snapshotFilePath
          /\ exportFilePath # "undefined" => result.export.filePath = exportFilePath
          /\ fileContent = Join(written)
          /\ result.export.fileBytes = ByteLength(Join(written))

\* a request in mode both returned with the caller's path and chunks on disk
C10_KeptAtCallerPath ==
  /\ outcome = "returned"
  /\ req.exportMode = "both"
  /\ exportFilePath = "caller"
  /\ Len(written) = 2
  /\ result.export.filePath = "caller"

(***************************************************************************)
(* Properties of the decoders, checked under SpecDecode                    *)
(***************************************************************************)
HeapDecoded == gate.reached /\ req.kind = "heap" /\ gate.decodeOk
TraceDecoded == gate.reached /\ req.kind = "alloc" /\ gate.decodeOk

\* a well-formed object graph: JSON with meta, nodes[] and strings[], the
\* fields type, name and self_size, and a declared node count, if any, equal
\* to the number of whole records in nodes
WellFormed(d) ==
  /\ d.valid
  /\ d.structure
  /\ \A f \in {"type", "name", "self_size"} : IndexOf(d.node_fields, f) >= 0
  /\ d.has_node_count => d.node_count = Len(d.nodes) \div Len(d.node_fields)

\* the whole fixed-width records of nodes, and the self_size of record i of
\* them (i from 1), read straight from the sequence
DirectRecordCount(d) == Len(d.nodes) \div Len(d.node_fields)
DirectSelfSize(d, i) ==
  d.nodes[(i - 1) * Len(d.node_fields) + IndexOf(d.node_fields, "self_size") + 1]

RECURSIVE DirectSelfSizeSum(_, _)
DirectSelfSizeSum(d, n) ==
  IF n = 0 THEN 0 ELSE DirectSelfSize(d, n) + DirectSelfSizeSum(d, n - 1)

\* C5: for every well-formed object graph captured untruncated and within
\* maxParseBytes, getHeapSnapshot returns parsed = true, totalNodes equal to
\* the number of fixed-width records of nodes and totalSizeBytes equal to the
\* sum of their self_size fields.
C5_TotalsExact ==
  (/\ gate.reached
   /\ req.kind = "heap"
   /\ WithinParseGate
   /\ WellFormed(doc))
  => /\ outcome = "returned"
     /\ result.summary.parsed
     /\ result.summary.totalNodes = DirectRecordCount(doc)
     /\ result.summary.totalSizeBytes = DirectSelfSizeSum(doc, DirectRecordCount(doc))

\* a snapshot of several records, without a declared count and ending in a
\* partial record, was summarised
C5_RaggedSummarised ==
  /\ HeapDecoded
  /\ doc = RaggedDoc
  /\ result.summary.totalNodes = 3
  /\ result.summary.totalSizeBytes = 8

\* record i (from 0) of the totalNodes records the decoder visits: its
\* resolved name and its self size
RecordName(d, i) ==
  LET pos == i * Len(d.node_fields) + IndexOf(d.node_fields, "name")
  IN NodeName(d.strings, Has(d.nodes, pos), IF Has(d.nodes, pos) THEN At(d.nodes, pos) ELSE 0)
RecordSelfSize(d, i) ==
  SelfSizeOf(d.nodes, i * Len(d.node_fields) + IndexOf(d.node_fields, "self_size"))

RECURSIVE SelfSizeOver(_, _)
SelfSizeOver(d, records) ==
  IF records = {} THEN 0
  ELSE LET i == CHOOSE x \in records : TRUE
       IN RecordSelfSize(d, i) + SelfSizeOver(d, records \ {i})

RECURSIVE CountTotal(_)
CountTotal(entries) ==
  IF entries = <<>> THEN 0 ELSE Head(entries).count + CountTotal(Tail(entries))

RECURSIVE SelfSizeTotal(_)
SelfSizeTotal(entries) ==
  IF entries = <<>> THEN 0 ELSE Head(entries).selfSizeBytes + SelfSizeTotal(Tail(entries))

\* C6: for every decoded object graph, each topConstructors entry counts the
\* records resolved to its name and sums their self sizes (the records being
\* the totalNodes records of the graph); no name has two entries; and when
\* topN is at least the number of distinct names, the counts sum to
\* totalNodes and the sizes to totalSizeBytes.
C6_ConstructorBuckets ==
  HeapDecoded =>
    LET tc == result.summary.topConstructors
        records == 0..(result.summary.totalNodes - 1)
        named(name) == {i \in records : RecordName(doc, i) = name}
    IN /\ \A k \in 1..Len(tc) :
            /\ tc[k].count = Cardinality(named(tc[k].name))
            /\ tc[k].count > 0
            /\ tc[k].selfSizeBytes = SelfSizeOver(doc, named(tc[k].name))
       /\ \A j, k \in 1..Len(tc) : tc[j].name = tc[k].name => j = k
       /\ gate.topN >= Cardinality({RecordName(doc, i) : i \in records}) =>
            /\ CountTotal(tc) = result.summary.totalNodes
            /\ SelfSizeTotal(tc) = result.summary.totalSizeBytes

\* two names were bucketed, one of them from several records
C6_SharedBucket ==
  /\ HeapDecoded
  /\ Len(result.summary.topConstructors) = 2
  /\ \E k \in 1..2 : /\ result.summary.topConstructors[k].count = 2
                       /\ result.summary.topConstructors[k].selfSizeBytes = 3

\* the record the decoder lists for record i (from 0)
DecodedRecord(d, i) ==
  LET base == i * Len(d.node_fields)
      idxId == IndexOf(d.node_fields, "id")
  IN [id |-> IF idxId >= 0 /\ Has(d.nodes, base + idxId)
             THEN At(d.nodes, base + idxId) ELSE NoId,
      name |-> RecordName(d, i),
      type |-> NodeType(d, base + IndexOf(d.node_fields, "type")),
      selfSizeBytes |-> RecordSelfSize(d, i)]

NonIncreasingBySelfSize(entries) ==
  \A k \in 1..(Len(entries) - 1) :
     entries[k].selfSizeBytes >= entries[k + 1].selfSizeBytes

\* C7: for every decoded object graph and every topN, topConstructors and
\* topNodes are sorted non-increasing by selfSizeBytes and hold at most topN
\* entries; topNodes holds the topN records of largest self size: min(topN,
\* totalNodes) of the graph's records, and above every size as many of them
\* as the graph has, up to topN.
C7_TopSorted ==
  HeapDecoded =>
    LET tc == result.summary.topConstructors
        tn == result.summary.topNodes
        records == 0..(result.summary.totalNodes - 1)
    IN /\ NonIncreasingBySelfSize(tc)
       /\ NonIncreasingBySelfSize(tn)
       /\ Len(tc) <= gate.topN
       /\ Len(tn) <= gate.topN
       /\ Len(tn) = Min(gate.topN, result.summary.totalNodes)
       /\ \A k \in 1..Len(tn) :
            Cardinality({j \in 1..Len(tn) : tn[j] = tn[k]})
              <= Cardinality({i \in records : DecodedRecord(doc, i) = tn[k]})
       /\ \A i \in records :
            Cardinality({j \in 1..Len(tn) :
                           tn[j].selfSizeBytes > RecordSelfSize(doc, i)})
              = Min(gate.topN,
                    Cardinality({x \in records :
                                   RecordSelfSize(doc, x) > RecordSelfSize(doc, i)}))

\* three records in increasing order of size were cut to the two largest
C7_CutToTopN ==
  /\ HeapDecoded
  /\ gate.topN = 2
  /\ result.summary.totalNodes = 3
  /\ RecordSelfSize(doc, 0) < RecordSelfSize(doc, 2)
  /\ Len(result.summary.topNodes) = 2
  /\ Len(result.summary.topConstructors) = 2

\* node i (from 1, the root) of the trace tree: a field of its record, its
\* frame label, and the labels on the path from the root's child down to it
TraceField(d, i, field) ==
  At(d.trace_tree, (i - 1) * Len(d.trace_node_fields) + IndexOf(d.trace_node_fields, field))
TraceLabel(d, i) == getFnLabel(d, TraceField(d, i, "function_info_index"))
AncestorAt(dv, i, level) ==
  CHOOSE j \in 1..i : dv[j] = level /\ \A k \in (j + 1)..i : dv[k] > level
DirectPath(d, i) ==
  [level \in 1..d.depths[i] |-> TraceLabel(d, AncestorAt(d.depths, i, level))]

NonIncreasingBySize(entries) ==
  \A k \in 1..(Len(entries) - 1) : entries[k].sizeBytes >= entries[k + 1].sizeBytes

\* C8 as stated: for every decoded allocation trace and every topN, topStacks
\* is sorted non-increasing by sizeBytes, has at most topN entries, and no
\* stackTrace has the root's frame label as its first frame.  Refuted by a
\* trace whose root's child carries the same label as the root.
C8_TopStacks ==
  TraceDecoded =>
    LET ts == result.summary.topStacks
    IN /\ NonIncreasingBySize(ts)
       /\ Len(ts) <= gate.topN
       /\ \A k \in 1..Len(ts) : ts[k].stackTrace[1] # TraceLabel(doc, 1)

\* C8, amended: topStacks is sorted non-increasing by sizeBytes, has at most
\* topN entries, and every stackTrace is the label path of a node other than
\* the root, from the root's child down to that node: the root's own frame
\* is left out of it.
C8_TopStacksWithoutRootFrame ==
  TraceDecoded =>
    LET ts == result.summary.topStacks
    IN /\ NonIncreasingBySize(ts)
       /\ Len(ts) <= gate.topN
       /\ \A k \in 1..Len(ts) :
            /\ Len(ts[k].stackTrace) >= 1
            /\ \E i \in 2..Len(doc.depths) : ts[k].stackTrace = DirectPath(doc, i)

\* more candidates than topN: the list is full and led by the largest
C8_ListFull ==
  /\ TraceDecoded
  /\ gate.topN > 0
  /\ Len(gate.candidates) > gate.topN
  /\ Len(result.summary.topStacks) = gate.topN
  /\ gate.candidates[1].sizeBytes < result.summary.topStacks[1].sizeBytes

\* node i has no child
IsLeafNode(dv, i) == i = Len(dv) \/ dv[i + 1] <= dv[i]

\* the candidate of leaf i
DirectItem(d, i) ==
  [stackTrace |-> DirectPath(d, i),
   sizeBytes |-> TraceField(d, i, "size"),
   count |-> TraceField(d, i, "count")]

\* the candidates among nodes 1..n, in pre-order: the leaves other than the
\* root whose size is positive
RECURSIVE DirectCandidates(_, _)
DirectCandidates(d, n) ==
  IF n <= 1 THEN <<>>
  ELSE IF IsLeafNode(d.depths, n) /\ TraceField(d, n, "size") > 0
       THEN Append(DirectCandidates(d, n - 1), DirectItem(d, n))
       ELSE DirectCandidates(d, n - 1)

\* C9: for every well-formed pre-order trace tree, the candidates the decoder
\* records are exactly the nodes other than the root that have no child and
\* a positive size, each with the frame labels from the root's child down to
\* it as stackTrace and with its own sizeBytes and count.
C9_CandidatesAreLeaves ==
  TraceDecoded => gate.candidates = DirectCandidates(doc, Len(doc.depths))

\* the tree root -> (a -> b, c): b, two levels down, has size 0 and is no
\* candidate; c, reached after leaving a, is the one candidate
C9_EmptyLeafThenSibling ==
  /\ TraceDecoded
  /\ doc.depths = <<0, 1, 2, 1>>
  /\ TraceField(doc, 3, "size") = 0
  /\ Len(gate.candidates) = 1
  /\ gate.candidates[1].stackTrace = <<TraceLabel(doc, 4)>>
  /\ gate.candidates[1].count = 4

(***************************************************************************)
(* Properties of the command sequence of a request, checked under Spec     *)
(***************************************************************************)
\* the positions of a command in the log
Positions(name) == {i \in 1..Len(issued) : issued[i].cmd = name}
Issued(name) == Positions(name) # {}
Succeeded(name) == \E i \in Positions(name) : issued[i].ok
Failed(name) == \E i \in Positions(name) : ~issued[i].ok

\* the request has ended
Ended == pc = "done"

\* C11: a request that obtained a CDP session sends detach exactly once, as
\* its last command: never while a step of the handler is still to run, and
\* once when the request has ended, whether it returned or threw; the
\* rejection of detach leaves the request's outcome as the try block left it
\* (a returned result stays returned, a throw stays the throw)
C11_DetachedOnce ==
  /\ [](/\ Cardinality(Positions("detach")) = (IF Ended /\ session # "none" THEN 1 ELSE 0)
        /\ Issued("detach") => issued[Len(issued)].cmd = "detach"
        /\ Ended /\ session # "none" => (outcome = "returned") = result.returned
        /\ Ended /\ session # "none" => outcome \in {"returned", "thrown"})
  /\ [][pc = "detach" => outcome' = outcome]_vars

\* a request returns its result although detach was rejected
C11_ReturnedThoughDetachFailed ==
  /\ Ended
  /\ outcome = "returned"
  /\ result.returned
  /\ issued[Len(issued)] = Cmd("detach", FALSE)
  /\ session = "attached"

\* every step the handler awaited, the opening of the sink included, succeeded
NoCommandFailed == \A i \in 1..Len(issued) : issued[i].cmd # "detach" => issued[i].ok

\* C12: when the write stream has reported an error after it was opened
\* (before, between or after the chunks, or while it is ended) and nothing
\* else failed, the request ends with a returned result, the file destination
\* is flagged truncated and the write failure is among the limitations
C12_WriteErrorSurvived ==
  (Ended /\ streamError /\ NoCommandFailed) =>
     /\ outcome = "returned"
     /\ snapshotTruncated
     /\ result.export.truncated
     /\ LimWriteFailed \in Range(result.limitations)

\* the limitations the handlers record about the capture and the parse step
CaptureLimitations ==
  {LimWriteFailed, LimExceededSnapshot, LimExceededParse, LimParseFailed, LimLegacyNodes}

\* the instrumentation setup and teardown commands
SetupCommands == {"enable", "startTracking", "stopTracking", "detach"}

\* C13: a request in which HeapProfiler.enable, startTrackingHeapObjects,
\* stopTrackingHeapObjects or detach failed still ends with a returned result,
\* and its limitations hold an entry for the failed command (an entry that is
\* not one of those about the capture and the parse step)
C13_SetupFailureRecorded ==
  (Ended /\ \E name \in SetupCommands : Failed(name)) =>
     /\ outcome = "returned"
     /\ result.returned
     /\ \E l \in Range(result.limitations) : l \notin CaptureLimitations

\* everything but the handler's position and the command log
restOfState == <<req, outcome, session, tracking, exportFilePath, snapshotFilePath,
                 files, stream, listening, streamError, limitations, delivered,
                 doc, gate, result, sinkVars, decodes, shot, calls, disk, walk>>

\* no step other than the garbage collection and the detach failed
OnlyGarbageCollectionFailed ==
  /\ Failed("collectGarbage")
  /\ \A i \in 1..Len(issued) :
       issued[i].cmd \notin {"collectGarbage", "detach"} => issued[i].ok

\* C14: the step that sends HeapProfiler.collectGarbage leaves the handler in
\* the same state whether the command fails or succeeds (the next step is the
\* measurement, the request is still pending, and nothing but the command log
\* differs), so capture, parsing and the result go on as after a successful
\* collection; a request whose only failed command is the collection, and
\* whose write stream reported no error, ends with a returned result
C14_GarbageCollectionFailureSwallowed ==
  /\ [][pc = "gc" =>
          /\ pc' = "measure"
          /\ UNCHANGED restOfState
          /\ \/ UNCHANGED issued
             \/ \E ok \in BOOLEAN : issued' = Append(issued, Cmd("collectGarbage", ok))]_vars
  /\ [](Ended /\ OnlyGarbageCollectionFailed /\ ~streamError =>
          outcome = "returned" /\ result.returned)

\* a trace is decoded and returned after the collection failed
C14_ParsedAfterFailedCollection ==
  /\ Ended
  /\ OnlyGarbageCollectionFailed
  /\ outcome = "returned"
  /\ req.kind = "alloc"
  /\ result.summary.parsed
  /\ result.limitations = <<>>

\* the command comes before the other in the log (both were issued)
Before(first, second) ==
  \E i \in Positions(first), j \in Positions(second) : i < j

\* the commands of a trackAllocations request that ran to its result
AllocCommands ==
  SelectSeq(issued, LAMBDA e : e.cmd \in {"startTracking", "wait", "takeHeapSnapshot",
                                           "stopTracking"})

C16_TrackingStopped ==
  (Ended /\ req.kind = "alloc" /\ Succeeded("startTracking")) => Issued("stopTracking")

\* C17: in a returned result, export.mode is the requested mode; filePath and
\* fileBytes are present exactly in the modes file and both (the path written
\* to and the bytes written); inline, inlineBytes and maxInlineBytes are
\* present exactly in the modes inline and both (the text pushed to the inline
\* buffer, its byte count and the requested budget); truncated is true
\* exactly when the file destination was truncated or, in the modes inline
\* and both, the inline payload was truncated
C17_ExportReflectsSink ==
  result.returned =>
    LET e == result.export
        fileAsked == req.exportMode \in {"file", "both"}
        inlineAsked == req.exportMode \in {"inline", "both"}
    IN
    /\ e.mode = req.exportMode
    /\ (e.filePath # "undefined") = fileAsked
    /\ (e.fileBytes # NoNumber) = fileAsked
    /\ (e.inline # <<>>) = inlineAsked
    /\ (e.inlineBytes # NoNumber) = inlineAsked
    /\ (e.maxInlineBytes # NoNumber) = inlineAsked
    /\ fileAsked => e.filePath = snapshotFilePath /\ e.fileBytes = fileBytesWritten
    /\ inlineAsked => /\ e.inline = <<Join(inlineChunks)>>
                      /\ e.inlineBytes = ByteLength(Join(inlineChunks))
                      /\ e.maxInlineBytes = req.maxInlineBytes
    /\ e.truncated = (snapshotTruncated \/ (inlineAsked /\ inlineTruncated))
    /\ ~inlineAsked => ~inlineTruncated

\* mode both: the file holds both chunks while the inline payload was cut, so
\* truncated is true on account of the inline payload alone
C17_BothWithInlineCut ==
  /\ result.returned
  /\ req.exportMode = "both"
  /\ Len(written) = 2
  /\ ~snapshotTruncated
  /\ inlineTruncated
  /\ result.export.truncated
  /\ result.export.fileBytes > result.export.inlineBytes
  /\ result.export.inline # <<>>

(***************************************************************************)
(* Properties of the trace decoder on malformed input and on topN = 0,     *)
(* checked under SpecDecode                                                *)
(***************************************************************************)
\* the trace decoder was called on a document that passes its structural
\* checks: JSON with trace_tree and trace_function_infos, whose
\* trace_node_fields names the function, the count and the size
TraceReadable(d) ==
  /\ d.valid
  /\ d.trace_structure
  /\ idxFnInfoOf(d) >= 0 /\ idxCountOf(d) >= 0 /\ idxSizeOf(d) >= 0

\* the records the declared child counts call for (the nodes of the declared
\* tree) against the whole records trace_tree holds
RecordsDeclared(d) == Len(d.depths)
RecordsHeld(d) == Len(d.trace_tree) \div Len(d.trace_node_fields)
Overrun(d) == RecordsDeclared(d) > RecordsHeld(d)

\* the last decoder call
LastDecode == decodes[Len(decodes)]

\* C18: when the child counts declared in the trace tree call for more
\* records than trace_tree holds, the trace decoder throws "trace_tree
\* truncated" and returns no stacks; trackAllocations then returns (it does
\* not throw) a summary with parsed = false, no stacks and no totals, and a
\* parse-failure limitation
C18_OverrunFails ==
  (gate.reached /\ req.kind = "alloc" /\ gate.decoderInvoked
     /\ TraceReadable(doc) /\ Overrun(doc)) =>
     /\ LastDecode.doc = doc
     /\ LastDecode.summary = [ok |-> FALSE, error |-> "trace_tree truncated"]
     /\ outcome = "returned"
     /\ result.returned
     /\ result.summary.defined
     /\ ~result.summary.parsed
     /\ result.summary.topStacks = <<>>
     /\ result.summary.totalAllocatedBytes = NoNumber
     /\ LimParseFailed \in Range(result.limitations)

\* the tree root -> (a, b) whose trace_tree ends in the middle of b's record:
\* a is a complete candidate and is reached before the walk runs out
C18_CutAfterFirstLeaf ==
  /\ gate.reached /\ req.kind = "alloc" /\ gate.decoderInvoked
  /\ TraceReadable(doc)
  /\ doc.depths = <<0, 1, 1>>
  /\ Len(doc.trace_tree) = 12
  /\ gate.topN = 1
  /\ ~result.summary.parsed
  /\ outcome = "returned"

\* what the decoder reports for a number of the root record: the number when
\* it is positive, nothing otherwise
Reported(n) == IF n > 0 THEN n ELSE NoNumber

SameCall(a, b) == a.kind = b.kind /\ a.doc = b.doc /\ a.topN = b.topN

RECURSIVE InlineAlone(_, _, _)
InlineAlone(chunks, maxInlineBytes, acc) ==
  IF chunks = <<>> THEN acc
  ELSE
    LET chunk == Head(chunks)
        remaining == maxInlineBytes - acc.bytes
        next ==
          IF chunk = <<>> THEN acc
          ELSE IF ~acc.truncated /\ acc.bytes < maxInlineBytes
          THEN [chunks |-> Append(acc.chunks, InlineSliced(chunk, remaining)),
                bytes |-> acc.bytes + ByteLength(InlineSliced(chunk, remaining)),
                truncated |-> InlineCut(chunk, remaining)]
          ELSE IF acc.bytes >= maxInlineBytes THEN [acc EXCEPT !.truncated = TRUE]
          ELSE acc
    IN Only({InlineAlone(Tail(chunks), maxInlineBytes, n) : n \in {next}})

NothingInline == [chunks |-> <<>>, bytes |-> 0, truncated |-> FALSE]

\* C21 (inline half): in the modes inline and both, the inline payload and
\* the inline-truncation flag are those the chunk sequence and maxInlineBytes
\* give on their own, whatever maxSnapshotBytes is and whether or not the
\* file destination was truncated or hit a write error
C21_InlineIndependentOfFile ==
  shouldReturnInline =>
    LET alone == InlineAlone(delivered, req.maxInlineBytes, NothingInline)
    IN /\ inlineChunks = alone.chunks
       /\ inlineBytes = alone.bytes
       /\ inlineTruncated = alone.truncated

\* the summary carries no total and no ranking of the decoder
EmptySummary(kind, summary) ==
  IF kind = "heap"
  THEN /\ summary.totalNodes = NoNumber /\ summary.totalSizeBytes = NoNumber
       /\ summary.topConstructors = <<>> /\ summary.topNodes = <<>>
  ELSE /\ summary.totalAllocatedBytes = NoNumber /\ summary.totalCount = NoNumber
       /\ summary.topStacks = <<>>

\* C25: every returned result, of getHeapSnapshot and of trackAllocations,
\* carries a summary; it is marked parsed = true exactly when the decoder ran
\* to completion, and when decoding was skipped (file truncated, or larger
\* than maxParseBytes) or failed it is marked parsed = false and holds no
\* total and no ranking
C25_UnparsedMarked ==
  result.returned =>
    /\ result.summary.defined
    /\ result.summary.parsed = (gate.decoderInvoked /\ gate.decodeOk)
    /\ ~result.summary.parsed => EmptySummary(req.kind, result.summary)

(***************************************************************************)
(* Properties of the release of resources, checked under Spec              *)
(***************************************************************************)
\* the capture (captureHeapSnapshotRaw) is over: it returned or threw
CaptureOver == pc \in {"stop", "parse", "detach", "done"}

\* C27: once the write stream was opened, a capture that is over, whether it
\* returned or threw, has ended its write stream (the stream finished or
\* failed: it is not left open) and has removed the chunk listener
C27_StreamClosedListenerRemoved ==
  (CaptureOver /\ Succeeded("open")) => (stream # "open" /\ ~listening)

\* C28: a request that does not export a file and has ended, with a result
\* or with an error, leaves no scratch file behind
C28_ScratchFileRemoved ==
  (Ended /\ ~shouldReturnFile) => files = {}

(***************************************************************************)
(* Properties of the order of the chunks in the two destinations, checked  *)
(* under Spec                                                              *)
(***************************************************************************)
\* the chunks that are events for the sink: onChunk returns at once on an
\* empty chunk
RECURSIVE NonEmpty(_)
NonEmpty(chunks) ==
  IF chunks = <<>> THEN <<>>
  ELSE IF Head(chunks) = <<>> THEN NonEmpty(Tail(chunks))
  ELSE <<Head(chunks)>> \o NonEmpty(Tail(chunks))

IsPrefix(s, t) == Len(s) <= Len(t) /\ s = SubSeq(t, 1, Len(s))

\* C29: the file receives whole chunks in arrival order: the chunks written
\* are a prefix of the (non-empty) chunks delivered and the file's content is
\* their concatenation; once a chunk has been left out, the file destination
\* is marked truncated and no later chunk is written, even one that would
\* fit the remaining budget
C29_FileIsChunkPrefix ==
  /\ [](/\ IsPrefix(written, NonEmpty(delivered))
        /\ fileContent = Join(written)
        /\ fileBytesWritten = ByteLength(Join(written))
        /\ Len(written) < Len(NonEmpty(delivered)) => snapshotTruncated)
  /\ [][Len(written) < Len(NonEmpty(delivered)) => written' = written]_vars

\* budget 2: the three-byte chunk is dropped, and the one-byte chunk that
\* follows, which would fit the budget, is dropped too
C29_FittingChunkDropped ==
  /\ req.maxSnapshotBytes = 2
  /\ delivered = << <<"W">>, <<"a">> >>
  /\ written = <<>>
  /\ fileContent = <<>>
  /\ ~streamError
  /\ snapshotTruncated

\* C30: in the modes inline and both, the inline payload is a prefix of the
\* concatenation of the chunks delivered, whatever happens on the file side
C30_InlineIsPrefix ==
  shouldReturnInline => IsPrefix(Join(inlineChunks), Join(delivered))

(***************************************************************************)
(* C26                                                                     *)
(***************************************************************************)
\* the base64 text of the image fits the threshold of the call
Base64Fits ==
  Base64Length(shot.bytes) <= thresholdKB(shot.args.maxBase64SizeKB) * KiB

\* C26: a take_screenshot call that returns selects its output by mode:
\* inline returns the base64 image and writes no file, file writes a file and
\* returns its path, and auto returns the base64 image exactly when the
\* image's base64 size is at most maxBase64SizeKB (100 when not given) and
\* saves a file when it is larger
C26_OutputByMode ==
  (shot.pc = "done" /\ shot.returned # "thrown") =>
    /\ shot.args.outputMode = "inline" =>
         shot.returned = "base64" /\ shot.written = {}
    /\ shot.args.outputMode = "file" =>
         shot.returned = "path" /\ shot.written # {}
    /\ shot.args.outputMode = "auto" =>
         /\ Base64Fits => shot.returned = "base64" /\ shot.written = {}
         /\ ~Base64Fits => shot.returned = "path" /\ shot.written # {}

(***************************************************************************)
(* Concurrent requests.  Each call runs getHeapSnapshot or                 *)
(* trackAllocations; a step is the code between two awaits, so the steps   *)
(* of different calls interleave.  disk holds, per path, the call whose    *)
(* createWriteStream made the file (by) and the calls whose chunks went    *)
(* into it (wrote).                                                        *)
(***************************************************************************)
Urls == {"u", "v"}

\* params of a call: the export modes that differ in the path they write to
CallParams ==
  {p \in [kind : Kinds, url : Urls, exportMode : {"none", "file"},
          exportFilePath : {"undefined", "caller"}] :
     p.exportMode = "none" => p.exportFilePath = "undefined"}

\* browserManager.getPage: the page cached for the URL, handed out at once to
\* every caller
getPage(url) == <<"page", url>>

\* the wait as a sleep that keeps the thread
BlockingSleep(cs) == {c \in CallIds : cs[c].pc = "wait"}

\* the wait of trackAllocations awaits a setTimeout promise: no call keeps the
\* thread while it waits
Blocking(cs) == {}

\* call c gets the thread
Runs(c) == Blocking(calls) \subseteq {c}

\* the n-th randomUUID() of call c: no two are equal
randomUUID(c, n) == <<c, n>>

\* `${fileNamePrefix}-${Date.now()}-${randomUUID()}.heapsnapshot` without the
\* identifier
SnapshotNameByTime(fileNamePrefix, now, uuid) == <<fileNamePrefix, now>>

\* `${fileNamePrefix}-${Date.now()}-${randomUUID()}.heapsnapshot`
SnapshotName(fileNamePrefix, now, uuid) == <<fileNamePrefix, now, uuid>>

fileNamePrefix(kind) == IF kind = "heap" THEN "heap" ELSE "alloc"

\* snapshotFilePath of captureHeapSnapshotRaw for call c at time now
SnapshotFilePathOf(c, p, now) ==
  LET defaultSnapshotPath ==
        <<"default", SnapshotName(fileNamePrefix(p.kind), now, randomUUID(c, 1))>>
      tempSnapshotPath ==
        <<"temp", SnapshotName(fileNamePrefix(p.kind), now, randomUUID(c, 2))>>
  IN  IF p.exportMode = "file"
      THEN (IF p.exportFilePath # "undefined" THEN <<"caller", p.exportFilePath>>
            ELSE defaultSnapshotPath)
      ELSE tempSnapshotPath

\* Date.now() does not go back
LatestNow ==
  LET ts == {calls[c].openedAt : c \in CallIds}
  IN  CHOOSE t \in ts : \A u \in ts : u <= t

FileAt(path) == {f \in disk : f.path = path}

PairInit == RepeatInit

\* getPage, createCDPSession, HeapProfiler.enable, the optional garbage
\* collection, the measurement and, for trackAllocations, startTrackingHeapObjects
\* and setTimeout
Begin(c) ==
  /\ calls[c].pc = "idle"
  /\ Runs(c)
  /\ \E p \in CallParams :
       calls' = [calls EXCEPT ![c] =
                   [NoCall EXCEPT
                      !.pc = IF p.kind = "alloc" THEN "wait" ELSE "open",
                      !.params = p, !.page = getPage(p.url),
                      !.tracking = p.kind = "alloc",
                      !.beganDuring = {d \in CallIds : calls[d].pc = "wait"}]]
  /\ UNCHANGED <<requestVars, shot, disk, walk>>

\* the timer of the wait fires and the promise resolves
TimerFires(c) ==
  /\ calls[c].pc = "wait"
  /\ Runs(c)
  /\ calls' = [calls EXCEPT ![c].pc = "open"]
  /\ UNCHANGED <<requestVars, shot, disk, walk>>

\* captureHeapSnapshotRaw up to takeHeapSnapshot: the path is chosen,
\* createWriteStream creates the file or empties the one there
OpenFile(c) ==
  /\ calls[c].pc = "open"
  /\ Runs(c)
  /\ \E now \in LatestNow..MaxClock :
       LET path == SnapshotFilePathOf(c, calls[c].params, now)
       IN  /\ calls' = [calls EXCEPT ![c].pc = "capture", ![c].openedAt = now,
                                     ![c].snapshotFilePath = path]
           /\ disk' = (disk \ FileAt(path))
                        \cup {[path |-> path, by |-> c, wrote |-> {}]}
  /\ UNCHANGED <<requestVars, shot, walk>>

\* addHeapSnapshotChunk on the call's own session: stream.write; a file taken
\* off its path meanwhile is written to without coming back
ChunkArrives(c) ==
  /\ calls[c].pc = "capture"
  /\ Runs(c)
  /\ calls' = [calls EXCEPT ![c].received = TRUE]
  /\ disk' = {[f EXCEPT !.wrote = IF f.path = calls[c].snapshotFilePath
                                  THEN @ \cup {c} ELSE @] : f \in disk}
  /\ UNCHANGED <<requestVars, shot, walk>>

\* takeHeapSnapshot resolves, the stream is ended and, for trackAllocations,
\* stopTrackingHeapObjects
Settle(c) ==
  /\ calls[c].pc = "capture"
  /\ Runs(c)
  /\ calls' = [calls EXCEPT ![c].pc = "parse", ![c].tracking = FALSE]
  /\ UNCHANGED <<requestVars, shot, disk, walk>>

\* stat and readFile of the path, rm of a temporary file, the return and detach
ParseFile(c) ==
  /\ calls[c].pc = "parse"
  /\ Runs(c)
  /\ LET path == calls[c].snapshotFilePath
         isTempFile == calls[c].params.exportMode # "file"
     IN  /\ calls' = [calls EXCEPT ![c].pc = "done", ![c].outcome = "returned",
                                   ![c].read = IF FileAt(path) = {} THEN MissingFile
                                               ELSE CHOOSE f \in FileAt(path) : TRUE]
         /\ disk' = IF isTempFile THEN disk \ FileAt(path) ELSE disk
  /\ UNCHANGED <<requestVars, shot, walk>>

\* an await of the call rejects (the timer's never does): detach in the finally
\* block, nothing else is undone
Rejects(c) ==
  /\ calls[c].pc \in {"idle", "open", "capture", "parse"}
  /\ Runs(c)
  /\ calls' = [calls EXCEPT ![c].pc = "done", ![c].outcome = "thrown"]
  /\ UNCHANGED <<requestVars, shot, disk, walk>>

PairNext ==
  \E c \in CallIds :
    \/ Begin(c)
    \/ TimerFires(c)
    \/ OpenFile(c)
    \/ ChunkArrives(c)
    \/ Settle(c)
    \/ ParseFile(c)
    \/ Rejects(c)

SpecPair == PairInit /\ [][PairNext]_vars

\* timers fire: the event loop runs every due timer callback
SpecPairFair == SpecPair /\ \A c \in CallIds : WF_vars(TimerFires(c))

(***************************************************************************)
(* C22                                                                     *)
(***************************************************************************)
\* call c has its capture file open or still to parse
Holding(c) == calls[c].pc \in {"capture", "parse"}

\* the path of call c was made up by the handler, not given by the caller
Generated(c) == calls[c].snapshotFilePath[1] \in {"default", "temp"}

\* what is at the path of call c is the file c made, with the chunks of c only
OwnFile(c, f) ==
  /\ f.path = calls[c].snapshotFilePath
  /\ f.by = c
  /\ f.wrote = IF calls[c].received THEN {c} ELSE {}

\* C22 as stated: two requests running at the same time never have the same
\* file path open, each request's file name being unique to it
C22_PathsUnique ==
  \A c, d \in CallIds :
    (c # d /\ Holding(c) /\ Holding(d)) =>
       calls[c].snapshotFilePath # calls[d].snapshotFilePath

\* C22 amended: two requests running at the same time have the same path open
\* only when both were given that path as export.filePath; a request whose
\* file name the handler generated holds a file that is its own (made by it,
\* holding its chunks only, never removed by the other request), and that is
\* the file it parses
C22_GeneratedPathsUnique ==
  /\ \A c, d \in CallIds :
       (c # d /\ Holding(c) /\ Holding(d)
          /\ calls[c].snapshotFilePath = calls[d].snapshotFilePath) =>
         /\ calls[c].params.exportFilePath = calls[d].params.exportFilePath
         /\ calls[c].params.exportFilePath # "undefined"
         /\ ~Generated(c)
  /\ \A c \in CallIds :
       (Holding(c) /\ Generated(c)) =>
          \E f \in disk : OwnFile(c, f)
  /\ \A c \in CallIds :
       (calls[c].pc = "done" /\ calls[c].outcome = "returned" /\ Generated(c)) =>
          OwnFile(c, calls[c].read)

\* two heap requests without export open their temporary files at the same
\* instant: the names differ
C22_SameInstantDistinctFiles ==
  /\ Holding(1) /\ Holding(2)
  /\ calls[1].params.kind = "heap" /\ calls[2].params.kind = "heap"
  /\ calls[1].params.exportMode = "none" /\ calls[2].params.exportMode = "none"
  /\ calls[1].openedAt = calls[2].openedAt
  /\ calls[1].snapshotFilePath # calls[2].snapshotFilePath
  /\ calls[1].received /\ calls[2].received

(***************************************************************************)
(* C23                                                                     *)
(***************************************************************************)
Waiting(c) == calls[c].pc = "wait"

\* the step call d is at can be taken
CanProceed(d) ==
  /\ calls[d].pc = "idle" => ENABLED Begin(d)
  /\ calls[d].pc = "open" => ENABLED OpenFile(d)
  /\ calls[d].pc = "capture" => ENABLED ChunkArrives(d) /\ ENABLED Settle(d)
  /\ calls[d].pc = "parse" => ENABLED ParseFile(d)

CycleActive(c) ==
  \/ calls[c].pc = "capture"
  \/ calls[c].params.kind = "alloc" /\ calls[c].pc \in {"wait", "open"}

\* C24: two requests for the same page never have their capture cycles
\* (takeHeapSnapshot, tracking) active at the same time
C24_OneCyclePerPage ==
  \A c, d \in CallIds :
    (c # d /\ calls[c].pc # "idle" /\ calls[d].pc # "idle"
       /\ calls[c].page = calls[d].page) =>
      ~(CycleActive(c) /\ CycleActive(d))

(***************************************************************************)
(* Properties of the bounded top list of the trace decoder, checked under  *)
(* SpecDecode                                                              *)
(***************************************************************************)
\* the positions in the candidates (in the order the leaves were visited) of
\* the candidates that are reported, and of those left out
ReportedAt(cands, stacks) == {k \in 1..Len(cands) : cands[k] \in Range(stacks)}
LeftOutAt(cands, stacks) == {k \in 1..Len(cands) : cands[k] \notin Range(stacks)}

\* C31: with topN > 0 the reported stacks of a decoded trace are min(topN,
\* number of candidates) of the candidates; no candidate left out is larger
\* (sizeBytes) than a reported one; and a candidate that came in when the
\* list was full is reported only if it is strictly larger than a candidate
\* visited before it that was left out (ties do not replace)
C31_TopListHoldsLargest ==
  (TraceDecoded /\ gate.topN > 0) =>
    LET ts == result.summary.topStacks
        cands == gate.candidates
    IN /\ Len(ts) = Min(gate.topN, Len(cands))
       /\ Range(ts) \subseteq Range(cands)
       /\ \A j, k \in 1..Len(ts) : ts[j] = ts[k] => j = k
       /\ \A c \in LeftOutAt(cands, ts) : \A k \in 1..Len(ts) :
            cands[c].sizeBytes <= ts[k].sizeBytes
       /\ \A r \in ReportedAt(cands, ts) :
            r > gate.topN =>
              \E c \in LeftOutAt(cands, ts) :
                 c < r /\ cands[c].sizeBytes < cands[r].sizeBytes

\* three candidates of sizes 1, 1, 2 and topN = 2: the first is replaced by
\* the third, the second stays
C31_EarlierOfTwoEqualReplaced ==
  /\ TraceDecoded
  /\ gate.topN = 2
  /\ Len(gate.candidates) = 3
  /\ gate.candidates[1].sizeBytes = 1
  /\ gate.candidates[2].sizeBytes = 1
  /\ gate.candidates[3].sizeBytes = 2
  /\ result.summary.topStacks = <<gate.candidates[3], gate.candidates[2]>>

(***************************************************************************)
(* Properties of the totals of the trace decoder, checked under SpecDecode *)
(***************************************************************************)
\* C32 as stated: the totals of a decoded trace are the size and the count of
\* the root record, whatever their values
C32_TotalsAreRootFields ==
  TraceDecoded =>
     /\ result.summary.totalAllocatedBytes = TraceField(doc, 1, "size")
     /\ result.summary.totalCount = TraceField(doc, 1, "count")

\* C32 amended: totalAllocatedBytes is the size of the root record when that
\* is positive and is left out when it is zero or negative, and so is
\* totalCount with the root's count; the sizes and counts below the root play
\* no part
C32_TotalsAreRootFieldsWhenPositive ==
  TraceDecoded =>
     LET size == TraceField(doc, 1, "size")
         count == TraceField(doc, 1, "count")
     IN /\ size > 0 => result.summary.totalAllocatedBytes = size
        /\ size <= 0 => result.summary.totalAllocatedBytes = NoNumber
        /\ count > 0 => result.summary.totalCount = count
        /\ count <= 0 => result.summary.totalCount = NoNumber

\* a root record of size 0 and count 7 over a leaf of size 5: no total of
\* bytes, and the root's count
C32_ZeroSizeLeftOut ==
  /\ TraceDecoded
  /\ doc = RootTotalsDoc(0, 7)
  /\ result.summary.totalAllocatedBytes = NoNumber
  /\ result.summary.totalCount = 7
  /\ Len(result.summary.topStacks) = 1
  /\ result.summary.topStacks[1].sizeBytes = 5

(***************************************************************************)
(* Properties of the object-graph decoder on unusual records and field     *)
(* lists, checked under SpecDecode                                         *)
(***************************************************************************)
\* the object-graph decoder was called on JSON that has meta, nodes[] and
\* strings[]
HeapReadable == gate.reached /\ req.kind = "heap" /\ gate.decoderInvoked
                  /\ doc.valid /\ doc.structure

RequiredNodeFields == {"type", "name", "self_size"}

\* the place (from 1) in nodes of a field of record i (from 0), and whether
\* nodes reaches that far
SlotOf(d, i, field) == i * Len(d.node_fields) + IndexOf(d.node_fields, field) + 1
SlotHeld(d, i, field) ==
  IndexOf(d.node_fields, field) >= 0 /\ SlotOf(d, i, field) <= Len(d.nodes)

\* the name due to record i: the string at its name index, the index as text
\* when the string table has no such entry ("undefined" when the record has
\* no name index at all)
DueName(d, i) ==
  IF ~SlotHeld(d, i, "name") THEN "undefined"
  ELSE LET n == d.nodes[SlotOf(d, i, "name")]
       IN IF n >= 0 /\ n < Len(d.strings) THEN d.strings[n + 1] ELSE ToString(n)

\* the self size due to record i: 0 when the value is absent
DueSelfSize(d, i) ==
  IF SlotHeld(d, i, "self_size") THEN d.nodes[SlotOf(d, i, "self_size")] ELSE 0

DueId(d, i) == IF SlotHeld(d, i, "id") THEN d.nodes[SlotOf(d, i, "id")] ELSE NoId

RECURSIVE DueSelfSizeOver(_, _)
DueSelfSizeOver(d, records) ==
  IF records = {} THEN 0
  ELSE LET i == CHOOSE x \in records : TRUE
       IN DueSelfSize(d, i) + DueSelfSizeOver(d, records \ {i})

\* C33: whatever the records hold, parseV8HeapSnapshot does not fail once the
\* structure and the required fields are there: a record whose name index is
\* outside the string table is named by the index as text, and an absent
\* self size counts as 0 in totalSizeBytes, in the bucket of the record's
\* name and in the record's own entry
C33_RecordContentsNeverFail ==
  (HeapReadable /\ \A f \in RequiredNodeFields : IndexOf(doc.node_fields, f) >= 0) =>
    LET records == 0..(result.summary.totalNodes - 1)
        tn == result.summary.topNodes
        tc == result.summary.topConstructors
    IN /\ gate.decodeOk
       /\ outcome = "returned"
       /\ result.summary.parsed
       /\ result.summary.totalSizeBytes = DueSelfSizeOver(doc, records)
       /\ \A k \in 1..Len(tn) :
            \E i \in records : /\ tn[k].id = DueId(doc, i)
                               /\ tn[k].name = DueName(doc, i)
                               /\ tn[k].selfSizeBytes = DueSelfSize(doc, i)
       /\ \A k \in 1..Len(tc) :
            LET named == {i \in records : DueName(doc, i) = tc[k].name}
            IN /\ tc[k].count = Cardinality(named)
               /\ tc[k].selfSizeBytes = DueSelfSizeOver(doc, named)

\* the fourth record has a name and no self size: it is listed with size 0
\* and counted in the bucket of its name, which keeps the sum of the others
C33_AbsentSelfSizeCounted ==
  /\ HeapDecoded
  /\ doc = PartialRecordDoc
  /\ gate.topN = DefaultTopN
  /\ result.summary.totalNodes = 4
  /\ result.summary.totalSizeBytes = 8
  /\ result.summary.topNodes[4] =
       [id |-> NoId, name |-> "Foo", type |-> "object", selfSizeBytes |-> 0]
  /\ \E k \in 1..Len(result.summary.topConstructors) :
       result.summary.topConstructors[k] =
         [name |-> "Foo", count |-> 3, selfSizeBytes |-> 3]

\* C34: parseV8HeapSnapshot fails with "heap snapshot meta missing required
\* node_fields" whenever type, name or self_size is not among node_fields,
\* and does not fail when only id is absent: the listed nodes then carry no id
C34_RequiredFieldsOnly ==
  HeapReadable =>
    LET missing == \E f \in RequiredNodeFields : f \notin Range(doc.node_fields)
    IN /\ missing =>
            /\ LastDecode.doc = doc
            /\ LastDecode.summary =
                 [ok |-> FALSE,
                  error |-> "heap snapshot meta missing required node_fields"]
            /\ ~gate.decodeOk
            /\ ~result.summary.parsed
       /\ ~missing =>
            /\ gate.decodeOk
            /\ result.summary.parsed
            /\ "id" \notin Range(doc.node_fields) =>
                 \A k \in 1..Len(result.summary.topNodes) :
                    result.summary.topNodes[k].id = NoId

\* the decoder refused a document whose node_fields lack only name
C34_MissingNameRefused ==
  /\ HeapReadable
  /\ doc = NodeFieldsDoc(<<"type", "id", "self_size">>, <<3, 100, 1,  3, 101, 5>>)
  /\ LastDecode.summary.error = "heap snapshot meta missing required node_fields"
  /\ outcome = "returned"
  /\ ~result.summary.parsed

(***************************************************************************)
(* The frame labels of the allocation trace, checked under SpecDecode      *)
(***************************************************************************)
\* descriptor f of trace_function_infos is there in full
WholeDescriptor(d, f) ==
  f >= 0 /\ (f + 1) * Len(d.trace_function_info_fields) <= Len(d.trace_function_infos)

\* the string a field of a whole descriptor f points at, if there is one
DescriptorPlace(d, names) ==
  CHOOSE k \in 1..Len(d.trace_function_info_fields) :
     d.trace_function_info_fields[k] \in names
DescriptorNumber(d, f, names) ==
  d.trace_function_infos[f * Len(d.trace_function_info_fields) + DescriptorPlace(d, names)]
Resolves(d, f, names) ==
  /\ \E k \in 1..Len(d.trace_function_info_fields) :
        d.trace_function_info_fields[k] \in names
  /\ DescriptorNumber(d, f, names) \in 0..(Len(d.strings) - 1)
DescriptorText(d, f, names) == d.strings[DescriptorNumber(d, f, names) + 1]
DescriptorNumberOr0(d, f, names) ==
  IF \E k \in 1..Len(d.trace_function_info_fields) :
        d.trace_function_info_fields[k] \in names
  THEN DescriptorNumber(d, f, names) ELSE 0

ScriptNameFields == {"script_name", "scriptName"}

\* the name of function f is not to be had: the index is negative or past the
\* descriptors, or the descriptor's name index is outside the string table
NameUnresolvable(d, f) == ~WholeDescriptor(d, f) \/ ~Resolves(d, f, {"name"})

\* the source file of function f is known
FileKnown(d, f) ==
  /\ WholeDescriptor(d, f)
  /\ Resolves(d, f, ScriptNameFields)
  /\ DescriptorText(d, f, ScriptNameFields) # ""

\* the label due to function f: the placeholder stands for a name that is
\* not to be had, and a known file is appended to either
DueLabel(d, f) ==
  LET name == IF NameUnresolvable(d, f) THEN "fn#" \o ToString(f)
              ELSE DescriptorText(d, f, {"name"})
  IN IF FileKnown(d, f)
     THEN name \o " (" \o DescriptorText(d, f, ScriptNameFields)
               \o ":" \o ToString(DescriptorNumberOr0(d, f, {"line"}))
               \o ":" \o ToString(DescriptorNumberOr0(d, f, {"column"})) \o ")"
     ELSE name

\* the nodes that are candidates, in pre-order
RECURSIVE CandidateLeaves(_, _)
CandidateLeaves(d, n) ==
  IF n <= 1 THEN <<>>
  ELSE IF IsLeafNode(d.depths, n) /\ TraceField(d, n, "size") > 0
       THEN Append(CandidateLeaves(d, n - 1), n)
       ELSE CandidateLeaves(d, n - 1)

\* the function of the frame at a level of the path to node i
FrameFunction(d, i, level) ==
  TraceField(d, AncestorAt(d.depths, i, level), "function_info_index")

\* C35 as stated: a frame whose function index is negative or out of range,
\* or whose name index is unresolvable, is labelled with the placeholder
\* fn#<index> and nothing else.  Refuted by a descriptor with a known file
\* and a name index past the string table: its label is the placeholder
\* followed by the file, the line and the column.
C35_PlaceholderIsLabel ==
  TraceDecoded =>
    LET leaves == CandidateLeaves(doc, Len(doc.depths))
    IN \A k \in 1..Len(gate.candidates) :
         \A level \in 1..Len(gate.candidates[k].stackTrace) :
            LET f == FrameFunction(doc, leaves[k], level)
            IN NameUnresolvable(doc, f) =>
                 gate.candidates[k].stackTrace[level] = "fn#" \o ToString(f)

\* C35, amended: getFnLabel never throws; its label is the function's name,
\* with the placeholder fn#<index> in the place of a name that is not to be
\* had (negative or out-of-range index, unresolvable name index), followed by
\* " (<file>:<line>:<column>)" exactly when the descriptor has a known,
\* non-empty source file
C35_LabelOfEveryFrame ==
  (gate.reached /\ req.kind = "alloc" /\ gate.decoderInvoked
     /\ TraceReadable(doc) /\ ~Overrun(doc)) =>
    LET leaves == CandidateLeaves(doc, Len(doc.depths))
    IN /\ gate.decodeOk
       /\ Len(gate.candidates) = Len(leaves)
       /\ \A k \in 1..Len(leaves) :
            gate.candidates[k].stackTrace =
              [level \in 1..doc.depths[leaves[k]] |->
                 DueLabel(doc, FrameFunction(doc, leaves[k], level))]

\* a stack whose first frame has a file and no name, and whose second frame
\* refers to a negative function index
C35_PlaceholderWithFile ==
  /\ TraceDecoded
  /\ doc = LabelDoc(FALSE, 1, -1)
  /\ gate.topN = 1
  /\ result.summary.topStacks[1].stackTrace = <<"fn#1 (app.js:20:2)", "fn#-1">>

(***************************************************************************)
(* The order of the capture and the reading of its file, checked under     *)
(* Spec                                                                    *)
(***************************************************************************)
\* the handler went on to stat the capture file (it does so unless the write
\* stream had reported an error)
FileStatted == gate.reached /\ ~streamError

\* C36: the capture file is looked at (stat, readFile) only after
\* takeHeapSnapshot has resolved, the chunk listener has been removed and the
\* write stream has emitted 'finish': the file then holds every chunk counted
\* in fileBytesWritten, and from the step that reads the file on, no chunk is
\* taken in, written or counted
C36_ReadAfterFinalized ==
  /\ [](FileStatted =>
          /\ Succeeded("takeHeapSnapshot")
          /\ ~listening
          /\ stream = "finished"
          /\ fileContent = Join(written)
          /\ ByteLength(fileContent) = fileBytesWritten
          /\ gate.fileSize = fileBytesWritten)
  /\ [][(pc = "parse" \/ gate.reached) =>
          UNCHANGED <<delivered, written, fileContent, fileBytesWritten,
                      totalReceivedBytes>>]_vars

\* the decoder ran on a file of two chunks, all of them written before the
\* stream finished
C36_TwoChunksRead ==
  /\ FileStatted
  /\ gate.decoderInvoked
  /\ Len(written) = 2
  /\ fileBytesWritten = 2
  /\ stream = "finished"
  /\ Len(delivered) = 2

(***************************************************************************)
(* Termination of the allocation-trace walk, checked under SpecWalkFair    *)
(***************************************************************************)
\* the walk is over: the loop was left or readNode threw
WalkOver == walk.started /\ (walk.w.childStack = <<>> \/ walk.w.truncated)

TraceWidth(d) == Len(d.trace_node_fields)

\* C37: the walk ends on every trace_tree, whatever its child counts (zero,
\* negative, or announcing more records than there are): it ends either with
\* every declared record read or with the truncated-trace error, and the
\* error only when the counts overrun the sequence; the records are read one
\* after the other, each once; the stack of remaining children and the
\* stack of frame labels always have the same depth, and an iteration either
\* reads one record and pushes on both, or pops both, or throws
C37_WalkTerminates ==
  /\ [](walk.started =>
          /\ Len(walk.w.callStack) = Len(walk.w.childStack)
          /\ walk.w.cursor <= Len(walk.d.trace_tree)
          /\ walk.w.cursor = Len(walk.reads) * TraceWidth(walk.d)
          /\ \A k \in 1..Len(walk.reads) :
               walk.reads[k] = (k - 1) * TraceWidth(walk.d)
          /\ walk.w.truncated =>
               /\ Overrun(walk.d)
               /\ walk.w.cursor + TraceWidth(walk.d) > Len(walk.d.trace_tree)
          /\ (WalkOver /\ ~walk.w.truncated) =>
               /\ ~Overrun(walk.d)
               /\ Len(walk.reads) = RecordsDeclared(walk.d)
          /\ (WalkOver /\ CanReadNode(walk.d, 0)) =>
               walk.w = TraceWalkFromRoot(walk.d, walk.topN))
  /\ [][walk.started =>
          \/ /\ walk'.w.cursor = walk.w.cursor + TraceWidth(walk.d)
             /\ Len(walk'.w.childStack) = Len(walk.w.childStack) + 1
             /\ ~walk'.w.truncated
          \/ /\ walk'.w.cursor = walk.w.cursor
             /\ Len(walk'.w.childStack) = Len(walk.w.childStack) - 1
             /\ ~walk'.w.truncated
          \/ /\ walk'.w = [walk.w EXCEPT !.truncated = TRUE]]_vars
  /\ (walk.started ~> WalkOver)

\* a walk over a tree with a negative child count has read all three records
\* and left the loop
C37_NegativeCountWalked ==
  /\ WalkOver
  /\ walk.d.trace_tree = <<1, 0, 3, 6, 2,  2, 1, 3, 6, -2,  3, 2, 2, 5, 0>>
  /\ ~walk.w.truncated
  /\ walk.reads = <<0, 5, 10>>
  /\ Len(walk.w.candidates) = 2

(***************************************************************************)
(* The files a request without file export touches, checked under Spec     *)
(***************************************************************************)
\* the caller's export.filePath and the default export path are not created,
\* and the capture writes to the scratch path or nowhere
CallerPathUntouched ==
  /\ files \subseteq {"temp"}
  /\ snapshotFilePath \in {"unset", "temp"}

\* C38: in the export modes none and inline the request leaves the caller's
\* filePath alone, whether or not one was supplied: the only file it creates
\* is the scratch file in the temp directory, and that file is gone when the
\* request has ended
C38_OnlyScratchFileWrittenAndRemoved ==
  ~shouldReturnFile =>
     /\ CallerPathUntouched
     /\ Ended => files = {}

====
